---------------------------- MODULE Spec2Model ----------------------------
(***************************************************************************)
(* A model of bz2api.js: the endpoint fetcher (fetchRaw) with its          *)
(* process-wide last-successful-route memory, and fetchSessions with its   *)
(* option validation and map-data enrichment over the shared map cache.    *)
(*                                                                         *)
(* JavaScript is single-threaded with cooperative suspension: an action    *)
(* of this model is the code one call runs between two awaits.  Several    *)
(* calls may be in progress at once (one per call slot); they interleave   *)
(* only at their awaits.                                                   *)
(***************************************************************************)
EXTENDS Integers, Sequences, FiniteSets, TLC

(***************************************************************************)
(* Bounds of the model.                                                    *)
(***************************************************************************)
\* number of call slots: calls that may be in progress at the same time
NumSlots == 2

Slots == 1..NumSlots

\* longest raw collection handed to the assembly of a session list
MaxRaw == 3

(***************************************************************************)
(* Program constants.                                                      *)
(***************************************************************************)
\* the configured fallback routes, in their configured order
CORS_PROXIES ==
    <<"https://corsproxy.io/?",
      "https://api.codetabs.com/v1/proxy?quest=",
      "https://api.allorigins.win/raw?url=">>

\* new URL(proxy).hostname
Hostname(proxy) ==
    CASE proxy = "https://corsproxy.io/?" -> "corsproxy.io"
      [] proxy = "https://api.codetabs.com/v1/proxy?quest=" -> "api.codetabs.com"
      [] proxy = "https://api.allorigins.win/raw?url=" -> "api.allorigins.win"

\* the primary route, as the memory names it
DIRECT == "direct"

\* the empty memory
NULL == "null"

\* a proxy a caller may pass as options.proxyUrl that is not configured
CustomProxy == "https://my.proxy/?"

\* options.proxyUrl: absent, a configured fallback, or another proxy
NoProxy == "none"
ProxyUrls == {NoProxy, CORS_PROXIES[2], CustomProxy}

ProxySet == {CORS_PROXIES[i] : i \in 1..Len(CORS_PROXIES)}

\* what a route's HTTP exchange ends in: a success status, a non-success
\* status, or a rejected fetch (unreachable, CORS)
Responses == {"ok", "nack", "err"}

\* what reading the body of a success response ends in
Bodies == {"json", "bad"}

\* JavaScript's undefined; a null string or URL is <<>> where the value is a
\* tuple of pieces
UNDEF == "undefined"

\* the mod id of the VSR balance mod
VSR_MOD_ID == "1325933293"

(***************************************************************************)
(* Values.  A number that may be null or undefined is <<>> when it is and  *)
(* <<n>> when it is the number n.  A string that is read character by      *)
(* character is the sequence of its UTF-16 code units.                     *)
(***************************************************************************)
None == <<>>
Num(n) == <<n>>

\* x ?? null
Nullish(x) == IF x = None THEN None ELSE x

\* a raw name field: absent, Base64 text (held as the bytes atob gives for
\* it), or text atob rejects (held as its own characters)
NoName == [kind |-> "absent", bytes |-> <<>>]
B64(bytes) == [kind |-> "b64", bytes |-> bytes]
NotB64(chars) == [kind |-> "text", bytes |-> chars]

(***************************************************************************)
(* Platform ids.  The text after the prefix of a player id is held by what *)
(* BigInt makes of it: a numeral stands for the integer hi * 2^56 + lo     *)
(* (canon: the text is the plain decimal numeral of that integer), a text  *)
(* BigInt rejects is held by a tag in lo.  lo is the low 56 bits: a        *)
(* negative lo stands for 2^56 + lo, so the integer -5 has hi -1, lo -5.   *)
(***************************************************************************)
IdNull == [kind |-> "null", hi |-> 0, lo |-> 0, canon |-> TRUE]
IdUndefined == [kind |-> "undefined", hi |-> 0, lo |-> 0, canon |-> TRUE]
IdEmpty == [kind |-> "empty", hi |-> 0, lo |-> 0, canon |-> TRUE]
IdNum(hi, lo) == [kind |-> "num", hi |-> hi, lo |-> lo, canon |-> TRUE]
IdPadded(hi, lo) == [kind |-> "num", hi |-> hi, lo |-> lo, canon |-> FALSE]
IdText(tag) == [kind |-> "text", hi |-> 0, lo |-> tag, canon |-> TRUE]

\* a raw player id: its first character and the rest; none when the field
\* is absent or empty
NoId == [prefix |-> "", value |-> IdEmpty]
RawId(prefix, value) == [prefix |-> prefix, value |-> value]

(***************************************************************************)
(* Raw records.  A raw session carries g (identity), n (name), m (map      *)
(* file), mm (the mod list, held as the list of its pieces between ';'),   *)
(* gt and gtd (game type and sub-type), si (server info mode), pl (the     *)
(* roster; absent is the empty roster), l (locked) and k (password).  A    *)
(* raw player carries n (name), i (id), k, d, s (kills, deaths, score)     *)
(* and t (team slot).                                                      *)
(***************************************************************************)
RawPlayer(n, i, k, d, s, t) == [n |-> n, i |-> i, k |-> k, d |-> d, s |-> s, t |-> t]

\* players: "Al" on Steam, "Bo" and "Cy" on GOG (Cy's raw id has high bits
\* set over Al's number), "Di" without an id and without a team slot
PlayerAl == RawPlayer(B64(<<65, 108>>), RawId("S", IdNum(0, 7)), Num(0), Num(0), Num(0), Num(1))
PlayerBo == RawPlayer(B64(<<66, 111>>), RawId("G", IdNum(1, 9)), None, None, None, Num(6))
PlayerCy == RawPlayer(B64(<<67, 121>>), RawId("G", IdNum(3, 7)), Num(2), Num(0), Num(5), Num(7))
PlayerDi == RawPlayer(B64(<<68, 105>>), NoId, None, None, None, None)

RawVsr ==
    [g |-> "B2", n |-> B64(<<86, 83, 82>>), m |-> "vsr4pool",
     mm |-> <<VSR_MOD_ID>>, gt |-> Num(2), gtd |-> Num(12), si |-> Num(1),
     pl |-> <<PlayerAl, PlayerBo>>, l |-> None, k |-> Num(0)]
RawStock ==
    [g |-> "A1", n |-> NoName, m |-> "custommap", mm |-> <<"">>,
     gt |-> Num(1), gtd |-> Num(0), si |-> Num(3), pl |-> <<>>,
     l |-> Num(1), k |-> Num(0)]
RawVsr2 ==
    [g |-> "C3", n |-> B64(<<128, 32>>), m |-> "vsr4pool",
     mm |-> <<VSR_MOD_ID, "", "123">>, gt |-> Num(2), gtd |-> Num(13),
     si |-> Num(2), pl |-> <<PlayerCy, PlayerAl>>, l |-> Num(0), k |-> None]
RawNoMap ==
    [g |-> "A0", n |-> NotB64(<<42>>), m |-> "", mm |-> <<"0">>,
     gt |-> None, gtd |-> None, si |-> Num(0), pl |-> <<PlayerDi>>,
     l |-> Num(0), k |-> Num(1)]

\* an entry with the identity key of RawVsr and another content
RawDup ==
    [g |-> "B2", n |-> NoName, m |-> "custommap", mm |-> <<"0">>,
     gt |-> Num(2), gtd |-> Num(5), si |-> Num(5), pl |-> <<PlayerAl>>,
     l |-> None, k |-> None]

\* an entry whose player ids and mod id are not numerals: IdText(0) and the
\* mod id are the text "constructor", IdText(1) is the text "abc"
PlayerEd == RawPlayer(B64(<<69, 100>>), RawId("S", IdText(0)), None, None, None, Num(2))
PlayerFy == RawPlayer(B64(<<70, 121>>), RawId("G", IdText(1)), None, None, None, Num(3))
RawOdd ==
    [g |-> "A1", n |-> NoName, m |-> "custommap", mm |-> <<"constructor", "0">>,
     gt |-> Num(2), gtd |-> Num(12), si |-> Num(1),
     pl |-> <<PlayerEd, PlayerFy>>, l |-> None, k |-> None]

\* the bodies the lobby server may answer with: rawData.GET
RawResponses ==
    {<<>>, <<RawVsr, RawStock>>, <<RawVsr2, RawNoMap, RawVsr>>}

\* the place of an identity key in the order of String.localeCompare
LocaleRank(id) ==
    CASE id = "A0" -> 0 [] id = "A1" -> 1 [] id = "B2" -> 2 [] id = "C3" -> 3

\* the bodies the map service may answer with: text that is not JSON, the
\* JSON value null, or an object
MapJson ==
    [kind |-> "object", title |-> "Four Pools", description |-> UNDEF,
     image |-> "vsr4pool.jpg", hasNetVars |-> TRUE, svar1 |-> "Red",
     svar2 |-> "", hasMods |-> TRUE,
     mods |-> [id \in {"123"} |-> [name |-> "", workshop_name |-> "A Mod"]]]
MapBodies == {[kind |-> "bad"], [kind |-> "null"], MapJson}

\* the map and mod pairs a lookup is made for: `${modId}:${mapFile}`
MapKeys == {<<VSR_MOD_ID, "vsr4pool">>, <<"0", "custommap">>}

\* the baked-in VSR table (one of its entries) and a caller's table
MapFiles == {"vsr4pool", "custommap", ""}
NoVsr == [has |-> FALSE]
VSR_MAP_DATA ==
    [m \in MapFiles |->
        IF m = "vsr4pool"
        THEN [has |-> TRUE, pools |-> "8", loose |-> "245", author |-> "ExE",
              size |-> "2048", baseToBase |-> "736"]
        ELSE NoVsr]
UserVsrData ==
    <<[file |-> "custommap", pools |-> "6", loose |-> "100", author |-> "Me",
       size |-> "1024", baseToBase |-> "900"],
      [file |-> "", pools |-> "1", loose |-> "1", author |-> "x",
       size |-> "1", baseToBase |-> "1"]>>

VARIABLES
    lastSuccessfulMethod,   \* the process-wide memory: NULL, DIRECT or a proxy
    mapDataCache,           \* the map cache: per key absent, null or map data
    fr,                     \* fr[c]: the fetchRaw call in progress in slot c
    fs,                     \* the fetchSessions call in progress
    md,                     \* md[i]: the fetchMapData calls in progress
    lastFallbackOk,         \* history: the fallback that succeeded last, or NULL
    lastRouteOk,            \* history: the route that succeeded last, or NULL
    calc                    \* a call of one of the synchronous functions

vars == <<lastSuccessfulMethod, mapDataCache, fr, fs, md, lastFallbackOk,
          lastRouteOk, calc>>

(***************************************************************************)
(* getProxyOrder: the remembered proxy first, then the others.             *)
(***************************************************************************)
getProxyOrder_NoFilter(mem) ==
    IF mem # NULL /\ mem # DIRECT
    THEN <<mem>> \o CORS_PROXIES
    ELSE CORS_PROXIES

getProxyOrder_Configured(mem) == CORS_PROXIES

getProxyOrder_OnlyCached(mem) ==
    IF mem # NULL /\ mem # DIRECT
    THEN <<mem>>
    ELSE CORS_PROXIES

getProxyOrder(mem) ==
    IF mem # NULL /\ mem # DIRECT
    THEN <<mem>> \o SelectSeq(CORS_PROXIES, LAMBDA p : p # mem)
    ELSE CORS_PROXIES

(***************************************************************************)
(* A fetchRaw call.                                                        *)
(*   pc       where the call is suspended                                  *)
(*   pending  the routes with a request in flight                          *)
(*   tried    the routes a request was issued through, in order            *)
(*   outs     how each finished attempt ended, aligned with tried: "ok",   *)
(*            "fail" (a non-success status, a rejected fetch, or a proxy   *)
(*            body that does not parse) or "bad" (a body that does not     *)
(*            parse and rejects the call)                                  *)
(*   events   the status events handed to onStatus, in order               *)
(*   result   "none" while running, then "data" or the error thrown        *)
(*   via      the route whose response is returned                         *)
(*   since    history, kept while the primary request is in flight: "same" *)
(*            when a fallback had succeeded before the call started and no *)
(*            other route has succeeded since, "direct" when only the      *)
(*            primary has succeeded since, "none" otherwise                *)
(*   raced    history: while this call was reading the body of its primary *)
(*            response another call's fallback succeeded, and no primary   *)
(*            response has had a success status since                      *)
(*   atCall   history: the memory when the call started, kept as long as   *)
(*            no other call has run since; "none" otherwise                *)
(***************************************************************************)
IdleFrame ==
    [pc |-> "idle", proxyUrl |-> NoProxy, onStatus |-> FALSE, pending |-> {},
     proxyOrder |-> <<>>, idx |-> 0, tried |-> <<>>, outs |-> <<>>,
     events |-> <<>>, result |-> "none", via |-> "none",
     since |-> "none", raced |-> FALSE, atCall |-> "none"]

Ev(step, status, proxy) == [step |-> step, status |-> status, proxy |-> proxy]

\* onStatus?.(event)
Emit(f, e) == IF f.onStatus THEN [f EXCEPT !.events = Append(@, e)] ELSE f

\* the call settles: fulfilled with data, or rejected with an error
Settle(f, result, via) ==
    [f EXCEPT !.pc = "done", !.pending = {}, !.result = result, !.via = via]

(***************************************************************************)
(* fetchRaw, one operator per stretch of code between two awaits.          *)
(***************************************************************************)
\* the head of the proxy loop: issue the request through the next proxy of
\* proxyOrder, or, the order exhausted, emit the error event and throw
ProxyLoop(f) ==
    IF f.idx < Len(f.proxyOrder)
    THEN LET p == f.proxyOrder[f.idx + 1]
         IN  Emit([f EXCEPT !.pc = "proxy", !.idx = @ + 1, !.pending = {p},
                            !.tried = Append(@, p)],
                  Ev("proxy", "pending", Hostname(p)))
    ELSE Settle(Emit(f, Ev("error", "failed", "-")), "AllFailed", "none")

\* the call up to its first await
BeginFetchRaw(proxyUrl, onStatus, since) ==
    LET f == [IdleFrame EXCEPT !.proxyUrl = proxyUrl, !.onStatus = onStatus,
                               !.since = IF proxyUrl = NoProxy THEN since
                                         ELSE "none"]
    IN  IF proxyUrl # NoProxy
        THEN [f EXCEPT !.pc = "specific", !.pending = {proxyUrl},
                       !.tried = <<proxyUrl>>]
        ELSE Emit([f EXCEPT !.pc = "direct", !.pending = {DIRECT},
                            !.tried = <<DIRECT>>],
                  Ev("direct", "pending", "-"))

OnSpecificResponse_FallsBack(f, r) ==
    IF r = "ok"
    THEN [f EXCEPT !.pc = "specificBody"]
    ELSE [f EXCEPT !.outs = Append(@, "fail"), !.pc = "direct",
                   !.pending = {DIRECT}, !.tried = Append(@, DIRECT)]

\* options.proxyUrl given: the response of the one request
OnSpecificResponse(f, r) ==
    IF r = "ok"
    THEN [f EXCEPT !.pc = "specificBody"]
    ELSE Settle([f EXCEPT !.outs = Append(@, "fail")],
                IF r = "nack" THEN "HttpError" ELSE "NetworkError", "none")

\* options.proxyUrl given: return response.json()
OnSpecificBody(f, b) ==
    IF b = "json"
    THEN Settle([f EXCEPT !.outs = Append(@, "ok")], "data", f.proxyUrl)
    ELSE Settle([f EXCEPT !.outs = Append(@, "bad")], "ParseError", "none")

\* the memory after the response of the direct request
MemAfterDirect(mem, r) == IF r = "ok" THEN DIRECT ELSE mem

\* the response of the direct request: on a success status remember the
\* route, emit success and return response.json(); otherwise emit failed,
\* compute the proxy order and enter the loop
OnDirectResponse(f, r, mem) ==
    IF r = "ok"
    THEN Emit([f EXCEPT !.pc = "directBody", !.since = "none"],
              Ev("direct", "success", "-"))
    ELSE ProxyLoop([Emit([f EXCEPT !.outs = Append(@, "fail"), !.pending = {},
                                   !.since = "none"],
                         Ev("direct", "failed", "-"))
                       EXCEPT !.proxyOrder = getProxyOrder(mem), !.idx = 0])

\* the promise returned from inside the try settles the call: a body that
\* does not parse rejects it, outside the reach of the catch
OnDirectBody(f, b) ==
    IF b = "json"
    THEN Settle([f EXCEPT !.outs = Append(@, "ok")], "data", DIRECT)
    ELSE Settle([f EXCEPT !.outs = Append(@, "bad")], "ParseError", "none")

\* the response of a proxy request: a non-success status continues the loop,
\* a rejected fetch is caught, reported and the loop goes on
OnProxyResponse(f, r) ==
    LET p == f.proxyOrder[f.idx]
    IN  CASE r = "ok"   -> [f EXCEPT !.pc = "proxyBody"]
          [] r = "nack" -> ProxyLoop([f EXCEPT !.outs = Append(@, "fail"),
                                               !.pending = {}])
          [] OTHER      -> ProxyLoop(Emit([f EXCEPT !.outs = Append(@, "fail"),
                                                    !.pending = {}],
                                          Ev("proxy", "failed", Hostname(p))))

MemAfterProxyBody_Forgets(mem, p, b) == mem

\* the memory after the body of a proxy response was read
MemAfterProxyBody(mem, p, b) == IF b = "json" THEN p ELSE mem

OnProxyBody_Continues(f, b) ==
    LET p == f.proxyOrder[f.idx]
    IN  IF b = "json"
        THEN ProxyLoop(Emit([f EXCEPT !.outs = Append(@, "ok"), !.pending = {}],
                            Ev("proxy", "success", Hostname(p))))
        ELSE ProxyLoop(Emit([f EXCEPT !.outs = Append(@, "fail"),
                                      !.pending = {}],
                            Ev("proxy", "failed", Hostname(p))))

\* await response.json() of a proxy response: data is remembered, reported
\* and returned; a body that does not parse is caught like a rejected fetch
OnProxyBody(f, b) ==
    LET p == f.proxyOrder[f.idx]
    IN  IF b = "json"
        THEN Settle(Emit([f EXCEPT !.outs = Append(@, "ok")],
                         Ev("proxy", "success", Hostname(p))), "data", p)
        ELSE ProxyLoop(Emit([f EXCEPT !.outs = Append(@, "fail"),
                                      !.pending = {}],
                            Ev("proxy", "failed", Hostname(p))))

(***************************************************************************)
(* Decoding utilities.                                                     *)
(***************************************************************************)
CP1252_MAP ==
    <<8364, 129, 8218, 402, 8222, 8230, 8224, 8225,
      710, 8240, 352, 8249, 338, 141, 381, 143,
      144, 8216, 8217, 8220, 8221, 8226, 8211, 8212,
      732, 8482, 353, 8250, 339, 157, 382, 376>>

\* the bytes up to the first null byte, each as the character cp1252 gives
\* it: 0x80..0x9F through CP1252_MAP, every other byte as its own code
RECURSIVE decodeCP1252(_)
decodeCP1252(bytes) ==
    IF bytes = <<>> \/ Head(bytes) = 0 THEN <<>>
    ELSE <<IF Head(bytes) >= 128 /\ Head(bytes) <= 159
           THEN CP1252_MAP[Head(bytes) - 128 + 1]
           ELSE Head(bytes)>> \o decodeCP1252(Tail(bytes))

\* the code units String.prototype.trim removes from both ends
WhiteSpace ==
    {9, 10, 11, 12, 13, 32, 160, 5760, 8232, 8233, 8239, 8287, 12288, 65279}
        \cup 8192..8202

RECURSIVE TrimStart(_)
TrimStart(str) ==
    IF str # <<>> /\ Head(str) \in WhiteSpace THEN TrimStart(Tail(str)) ELSE str

RECURSIVE TrimEnd(_)
TrimEnd(str) ==
    IF str # <<>> /\ str[Len(str)] \in WhiteSpace
    THEN TrimEnd(SubSeq(str, 1, Len(str) - 1)) ELSE str

Trim(str) == TrimEnd(TrimStart(str))

decodeBase64Name(base64String) ==
    CASE base64String.kind = "b64" -> Trim(decodeCP1252(base64String.bytes))
      [] base64String.kind = "text" -> base64String.bytes
      [] OTHER -> <<>>

(***************************************************************************)
(* Field parsers.                                                          *)
(***************************************************************************)
ServerInfoMode ==
    [UNKNOWN |-> 0, OPEN_WAITING |-> 1, CLOSED_WAITING |-> 2,
     OPEN_PLAYING |-> 3, CLOSED_PLAYING |-> 4, EXITING |-> 5]

GameType == [ALL |-> 0, DEATHMATCH |-> 1, STRATEGY |-> 2]

GameMode == [STRAT |-> 11, TEAM_STRAT |-> 12, MPI |-> 13, GAMEMODE_MAX |-> 14]

\* x && x !== 0 of a numeric stat
NonZeroStat(x) == x # None /\ x[1] # 0

\* players.some(...) with the deaths left out
HasInGameStats_NoDeaths(players) ==
    \E i \in 1..Len(players) :
        \/ NonZeroStat(players[i].score)
        \/ NonZeroStat(players[i].kills)

\* players.some(p => (p.score && ...) || (p.kills && ...) || (p.deaths && ...))
HasInGameStats(players) ==
    \E i \in 1..Len(players) :
        \/ NonZeroStat(players[i].score)
        \/ NonZeroStat(players[i].kills)
        \/ NonZeroStat(players[i].deaths)

\* the switch on si with the case EXITING left out
StateOf_NoExiting(si, hasInGameStats) ==
    CASE si \in {Num(ServerInfoMode.OPEN_WAITING),
                 Num(ServerInfoMode.CLOSED_WAITING)} ->
            IF hasInGameStats THEN "InGame" ELSE "PreGame"
      [] si \in {Num(ServerInfoMode.OPEN_PLAYING),
                 Num(ServerInfoMode.CLOSED_PLAYING)} -> "InGame"
      [] OTHER -> "Unknown"

\* the state the switch on si sets
StateOf(si, hasInGameStats) ==
    CASE si \in {Num(ServerInfoMode.OPEN_WAITING),
                 Num(ServerInfoMode.CLOSED_WAITING)} ->
            IF hasInGameStats THEN "InGame" ELSE "PreGame"
      [] si \in {Num(ServerInfoMode.OPEN_PLAYING),
                 Num(ServerInfoMode.CLOSED_PLAYING)} -> "InGame"
      [] si = Num(ServerInfoMode.EXITING) -> "PostGame"
      [] OTHER -> "Unknown"

parseSessionState(si, players) ==
    LET hasInGameStats == HasInGameStats(players)
        waiting == si \in {Num(ServerInfoMode.OPEN_WAITING),
                           Num(ServerInfoMode.CLOSED_WAITING)}
        playing == si \in {Num(ServerInfoMode.OPEN_PLAYING),
                           Num(ServerInfoMode.CLOSED_PLAYING)}
    IN  [state |-> StateOf(si, hasInGameStats),
         stateDetail |->
            CASE waiting ->
                    IF hasInGameStats THEN "playing"
                    ELSE IF si = Num(ServerInfoMode.OPEN_WAITING)
                         THEN "waiting" ELSE "full"
              [] playing ->
                    IF si = Num(ServerInfoMode.OPEN_PLAYING)
                    THEN "playing" ELSE "full"
              [] si = Num(ServerInfoMode.EXITING) -> "exiting"
              [] OTHER -> "unknown",
         serverInfoMode |-> si,
         hasOpenSlots |-> si \in {Num(ServerInfoMode.OPEN_WAITING),
                                  Num(ServerInfoMode.OPEN_PLAYING)}]

\* the bit test with the bit taken for set
HasBit_Set(x, bit) == TRUE

\* x & bit, for a power of two bit and x >= 0
HasBit(x, bit) == (x \div bit) % 2 = 1

\* the game mode of a deathmatch sub-mode, alone or in teams
DeathmatchMode(detailedFlags, team) ==
    CASE detailedFlags \in {0, 7} -> IF team THEN "TEAM_DM" ELSE "DM"
      [] detailedFlags = 1 -> IF team THEN "TEAM_KOTH" ELSE "KOTH"
      [] detailedFlags = 2 -> IF team THEN "TEAM_CTF" ELSE "CTF"
      [] detailedFlags = 3 -> IF team THEN "TEAM_LOOT" ELSE "LOOT"
      [] detailedFlags \in {5, 6} -> IF team THEN "TEAM_RACE" ELSE "RACE"
      [] OTHER -> "DM"

parseGameTypeAndMode(gt, gtd) ==
    LET result == [gameType |-> NULL, gameMode |-> NULL, isTeamGame |-> FALSE,
                   respawn |-> "One", vehicleOnly |-> FALSE,
                   rawGameType |-> gt, rawGameSubType |-> gtd]
    IN  CASE gt = Num(GameType.DEATHMATCH) ->
                IF gtd = None THEN [result EXCEPT !.gameType = "DM"]
                ELSE LET modeBase == gtd[1] % GameMode.GAMEMODE_MAX
                         detailed == gtd[1] \div GameMode.GAMEMODE_MAX
                         detailedFlags == detailed % 256
                         team == modeBase % 2 = 0 /\ modeBase >= 2
                                    /\ modeBase <= 10
                     IN  [result EXCEPT
                            !.gameType = "DM",
                            !.respawn = IF HasBit(detailed, 256) THEN "Race"
                                        ELSE IF HasBit(detailed, 512)
                                             THEN "Any" ELSE "One",
                            !.isTeamGame = team,
                            !.gameMode = DeathmatchMode(detailedFlags, team),
                            !.vehicleOnly = detailedFlags \in {6, 7}]
          [] gt = Num(GameType.STRATEGY) ->
                IF gtd = None THEN [result EXCEPT !.gameType = "STRAT"]
                ELSE LET modeBase == gtd[1] % GameMode.GAMEMODE_MAX
                     IN  [result EXCEPT
                            !.gameType = "STRAT",
                            !.gameMode =
                                CASE modeBase = GameMode.STRAT -> "FFA"
                                  [] modeBase = GameMode.MPI -> "MPI"
                                  [] OTHER -> "STRAT",
                            !.isTeamGame =
                                modeBase \in {GameMode.TEAM_STRAT, GameMode.MPI}]
          [] gt = Num(GameType.ALL) -> [result EXCEPT !.gameType = "ALL"]
          [] OTHER -> result

\* a non-empty string
Truthy(id) == id.kind \in {"num", "text"}

\* BigInt(rawGogId) & 0x00ffffffffffffff, as a decimal string
cleanGogId(rawGogId) ==
    CASE ~Truthy(rawGogId) -> IdNull
      [] rawGogId.kind = "num" -> IdNum(0, rawGogId.lo)
      [] OTHER -> rawGogId

NoProfileUrl == [base |-> NULL, id |-> IdNull]

buildSteamProfileUrl(steamId) ==
    IF ~Truthy(steamId) THEN NoProfileUrl
    ELSE [base |-> "https://steamcommunity.com/profiles/", id |-> steamId]

buildGogProfileUrl(gogId) ==
    IF ~Truthy(gogId) THEN NoProfileUrl
    ELSE [base |-> "https://www.gog.com/u/", id |-> gogId]

\* mm.split(';').filter(id => id.length > 0)
parseModIds(mm) == SelectSeq(mm, LAMBDA t : t # "")

(***************************************************************************)
(* Main parsers.                                                           *)
(***************************************************************************)
\* the team fields with the two-team branch taken in every game
TeamOf_AnyGame(teamSlot, isTeamGame, isMPI) ==
    LET none == [team |-> None, teamIndex |-> None, isTeamLeader |-> FALSE]
    IN  IF teamSlot = None \/ teamSlot = Num(255) THEN none
        ELSE LET slot == teamSlot[1]
             IN  IF ~isMPI
                 THEN IF slot >= 1 /\ slot <= 5
                      THEN [team |-> Num(1), teamIndex |-> Num(slot - 1),
                            isTeamLeader |-> slot = 1]
                      ELSE IF slot >= 6 /\ slot <= 10
                           THEN [team |-> Num(2), teamIndex |-> Num(slot - 6),
                                 isTeamLeader |-> slot = 6]
                           ELSE none
                 ELSE IF isMPI
                      THEN [team |-> Num(1), teamIndex |-> Num(slot - 1),
                            isTeamLeader |-> slot = 1]
                      ELSE none

\* the team fields with the second team starting at slot 7
TeamOf_SplitAtSeven(teamSlot, isTeamGame, isMPI) ==
    LET none == [team |-> None, teamIndex |-> None, isTeamLeader |-> FALSE]
    IN  IF teamSlot = None \/ teamSlot = Num(255) THEN none
        ELSE LET slot == teamSlot[1]
             IN  IF isTeamGame /\ ~isMPI
                 THEN IF slot >= 1 /\ slot <= 6
                      THEN [team |-> Num(1), teamIndex |-> Num(slot - 1),
                            isTeamLeader |-> slot = 1]
                      ELSE IF slot >= 7 /\ slot <= 10
                           THEN [team |-> Num(2), teamIndex |-> Num(slot - 6),
                                 isTeamLeader |-> slot = 6]
                           ELSE none
                 ELSE IF isMPI
                      THEN [team |-> Num(1), teamIndex |-> Num(slot - 1),
                            isTeamLeader |-> slot = 1]
                      ELSE none

\* the team fields of a player in teamSlot
TeamOf(teamSlot, isTeamGame, isMPI) ==
    LET none == [team |-> None, teamIndex |-> None, isTeamLeader |-> FALSE]
    IN  IF teamSlot = None \/ teamSlot = Num(255) THEN none
        ELSE LET slot == teamSlot[1]
             IN  IF isTeamGame /\ ~isMPI
                 THEN IF slot >= 1 /\ slot <= 5
                      THEN [team |-> Num(1), teamIndex |-> Num(slot - 1),
                            isTeamLeader |-> slot = 1]
                      ELSE IF slot >= 6 /\ slot <= 10
                           THEN [team |-> Num(2), teamIndex |-> Num(slot - 6),
                                 isTeamLeader |-> slot = 6]
                           ELSE none
                 ELSE IF isMPI
                      THEN [team |-> Num(1), teamIndex |-> Num(slot - 1),
                            isTeamLeader |-> slot = 1]
                      ELSE none

\* the id fields of a player: none without an id or with another prefix
NoPlatform ==
    [steamId |-> IdNull, gogId |-> IdNull, gogIdRaw |-> IdUndefined,
     platform |-> NULL, profileUrl |-> NoProfileUrl]

GogPlatform(idValue, cleanedGogId) ==
    [steamId |-> IdNull, gogId |-> cleanedGogId, gogIdRaw |-> idValue,
     platform |-> "GOG", profileUrl |-> buildGogProfileUrl(cleanedGogId)]

PlatformOf(rawId) ==
    CASE rawId.prefix = "S" ->
            [steamId |-> rawId.value, gogId |-> IdNull,
             gogIdRaw |-> IdUndefined, platform |-> "Steam",
             profileUrl |-> buildSteamProfileUrl(rawId.value)]
      [] rawId.prefix = "G" -> GogPlatform(rawId.value, cleanGogId(rawId.value))
      [] OTHER -> NoPlatform

\* the player object, from its id fields, its team slot and its team fields
PlayerOf(rawPlayer, index, gameMode, ids, teamSlot, t) ==
    [name |-> decodeBase64Name(rawPlayer.n),
     rawId |-> rawPlayer.i,
     steamId |-> ids.steamId,
     gogId |-> ids.gogId,
     gogIdRaw |-> ids.gogIdRaw,
     platform |-> ids.platform,
     profileUrl |-> ids.profileUrl,
     kills |-> Nullish(rawPlayer.k),
     deaths |-> Nullish(rawPlayer.d),
     score |-> Nullish(rawPlayer.s),
     teamSlot |-> teamSlot,
     team |-> t.team,
     isTeamLeader |-> t.isTeamLeader,
     isCommander |->
        IF gameMode \in {"STRAT", "MPI", "TEAM_STRAT"}
        THEN t.isTeamLeader ELSE FALSE,
     teamIndex |-> t.teamIndex,
     isHost |-> index = 0,
     isHidden |-> teamSlot = None \/ teamSlot = Num(255)]

parsePlayer(rawPlayer, index, isTeamGame, isMPI, gameMode) ==
    PlayerOf(rawPlayer, index, gameMode, PlatformOf(rawPlayer.i),
             Nullish(rawPlayer.t),
             TeamOf(Nullish(rawPlayer.t), isTeamGame, isMPI))

(***************************************************************************)
(* The data cache.  players and mods are plain objects: a lookup of a key  *)
(* the object does not own falls through to Object.prototype.              *)
(***************************************************************************)
\* the names Object.prototype answers to, among the player ids and among
\* the mod ids
InheritedPlayerKeys == {IdText(0)}
InheritedModKeys == {"constructor"}

NoEntries == <<>>

\* player.steamId || player.gogId
PlayerIdOf(player) == IF Truthy(player.steamId) THEN player.steamId ELSE player.gogId

PlayerEntry(player) ==
    [id |-> PlayerIdOf(player), steamId |-> player.steamId,
     gogId |-> player.gogId, platform |-> player.platform,
     profileUrl |-> player.profileUrl]

ModEntry(mod) == [id |-> mod.id, name |-> mod.name, workshopUrl |-> mod.workshopUrl]

\* players[playerId] = entry, with the entries players has already
PutEntry(entries, key, entry) ==
    [x \in DOMAIN entries \cup {key} |-> IF x = key THEN entry ELSE entries[x]]

\* for (const player of session.players)
\*   if (playerId && !players[playerId]) players[playerId] = {...}
RECURSIVE CollectPlayers(_, _)
CollectPlayers(players, roster) ==
    IF roster = <<>> THEN players
    ELSE LET player == Head(roster)
             playerId == PlayerIdOf(player)
             seen == playerId \in DOMAIN players \/ playerId \in InheritedPlayerKeys
         IN  CollectPlayers(
                IF Truthy(playerId) /\ ~seen
                THEN PutEntry(players, playerId, PlayerEntry(player))
                ELSE players,
                Tail(roster))

\* for (const mod of session.mods) if (!mods[mod.id]) mods[mod.id] = {...}
RECURSIVE CollectMods(_, _)
CollectMods(mods, list) ==
    IF list = <<>> THEN mods
    ELSE LET mod == Head(list)
             seen == mod.id \in DOMAIN mods \/ mod.id \in InheritedModKeys
         IN  CollectMods(
                IF ~seen THEN PutEntry(mods, mod.id, ModEntry(mod)) ELSE mods,
                Tail(list))

\* for (const session of sessions) ..., from the entries collected so far
RECURSIVE CollectSessions(_, _)
CollectSessions(cache, sessions) ==
    IF sessions = <<>> THEN cache
    ELSE CollectSessions(
            [players |-> CollectPlayers(cache.players, Head(sessions).players),
             mods |-> CollectMods(cache.mods, Head(sessions).mods)],
            Tail(sessions))

buildDataCache(sessions) ==
    CollectSessions([players |-> NoEntries, mods |-> NoEntries], sessions)

(***************************************************************************)
(* Steam join URL utilities.                                               *)
(***************************************************************************)
\* the code units of the strings that raw sessions carry as g and in mm
Chars(str) ==
    CASE str = "" -> <<>>
      [] str = "0" -> <<48>>
      [] str = "123" -> <<49, 50, 51>>
      [] str = VSR_MOD_ID -> <<49, 51, 50, 53, 57, 51, 51, 50, 57, 51>>
      [] str = "A0" -> <<65, 48>>
      [] str = "A1" -> <<65, 49>>
      [] str = "B2" -> <<66, 50>>
      [] str = "C3" -> <<67, 51>>
      [] str = "constructor" ->
            <<99, 111, 110, 115, 116, 114, 117, 99, 116, 111, 114>>
      [] str = "@" -> <<64>>
      [] str = "@0" -> <<64, 48>>
      [] str = "@@_" -> <<64, 64, 95>>
      [] str = "@@@@@@@@@@G" -> [k \in 1..10 |-> 64] \o <<71>>

\* x || '' of a string that may be absent
OrEmpty(x) == IF x \in {UNDEF, NULL} THEN "" ELSE x

\* 'steam://rungame/624970/76561198955218468/-connect-mp%20'
STEAM_JOIN_BASE ==
    <<
      115, 116, 101, 97, 109, 58, 47, 47, 114, 117, 110, 103,
      97, 109, 101, 47, 54, 50, 52, 57, 55, 48, 47, 55,
      54, 53, 54, 49, 49, 57, 56, 57, 53, 53, 50, 49,
      56, 52, 54, 56, 47, 45, 99, 111, 110, 110, 101, 99,
      116, 45, 109, 112, 37, 50, 48>>

\* the digit d of a numeral in lowercase
DigitChar(d) == IF d < 10 THEN 48 + d ELSE 97 + d - 10

\* n.toString(radix)
RECURSIVE NumToString(_, _)
NumToString(n, radix) ==
    IF n < radix THEN <<DigitChar(n)>>
    ELSE NumToString(n \div radix, radix) \o <<DigitChar(n % radix)>>

\* str.padStart(2, '0')
PadStart2(str) == IF Len(str) < 2 THEN <<48>> \o str ELSE str

RECURSIVE stringToHex(_)
stringToHex(str) ==
    IF str = <<>> THEN <<>>
    ELSE PadStart2(NumToString(Head(str), 16)) \o stringToHex(Tail(str))

\* parts.join(sep)
RECURSIVE Join(_, _)
Join(parts, sep) ==
    IF parts = <<>> THEN <<>>
    ELSE IF Len(parts) = 1 THEN Head(parts)
         ELSE Head(parts) \o sep \o Join(Tail(parts), sep)

NoUrl == <<>>

\* the argument string N,{nameLen},{name},{modListLen},{modList},{nat},0,
JoinArgs(raw) ==
    LET mods == parseModIds(raw.mm)
        sessionName == decodeBase64Name(raw.n)
        modList == Join([i \in 1..Len(mods) |-> Chars(mods[i])], <<59>>)
        natAddress == Chars(OrEmpty(raw.g))
    IN  Join(<<<<78>>, NumToString(Len(sessionName), 10), sessionName,
               NumToString(Len(modList), 10), modList, natAddress, <<48>>>>,
             <<44>>) \o <<44>>

\* the join URL with the test of the password flag left out
buildSteamJoinUrl_IgnoresPassword(raw) ==
    IF raw.l = Num(1) THEN NoUrl
    ELSE IF parseModIds(raw.mm) = <<>> THEN NoUrl
         ELSE STEAM_JOIN_BASE \o stringToHex(JoinArgs(raw))

buildSteamJoinUrl(raw) ==
    IF raw.l = Num(1) \/ raw.k = Num(1) THEN NoUrl
    ELSE IF parseModIds(raw.mm) = <<>> THEN NoUrl
         ELSE STEAM_JOIN_BASE \o stringToHex(JoinArgs(raw))

(***************************************************************************)
(* The RakNet GUID.  A BigInt is held as its bits, the lowest first; bits  *)
(* above the highest one set may be present and are zero.                  *)
(***************************************************************************)
\* '@123456789ABCDEFGHIJKLMNOPQRSTUVWXYZabcdefghijklmnopqrstuvwxyz-_'
RAKNET_B64_CHARS ==
    <<64>> \o [i \in 1..9 |-> 48 + i] \o [i \in 1..26 |-> 64 + i]
        \o [i \in 1..26 |-> 96 + i] \o <<45, 95>>

\* str.indexOf(c)
IndexOf(str, c) ==
    IF \E i \in 1..Len(str) : str[i] = c
    THEN (CHOOSE i \in 1..Len(str) :
            str[i] = c /\ \A j \in 1..(i - 1) : str[j] # c) - 1
    ELSE -1

\* BigInt(n) for 0 <= n < 64
SixBits(n) == [k \in 1..6 |-> (n \div (2 ^ (k - 1))) % 2]

\* a << n
ShiftLeft(a, n) == [k \in 1..n |-> 0] \o a

\* a | b
BitOr(a, b) ==
    [k \in 1..(IF Len(a) > Len(b) THEN Len(a) ELSE Len(b)) |->
        IF (k <= Len(a) /\ a[k] = 1) \/ (k <= Len(b) /\ b[k] = 1) THEN 1 ELSE 0]

\* the shift with five bits for each character
ShiftOf_FiveBits(i) == i * 5

\* i * 6
ShiftOf(i) == i * 6

\* the loop over the characters from position i (counted from 0) on
RECURSIVE DecodeFrom(_, _, _)
DecodeFrom(encodedGuid, i, result) ==
    IF i >= Len(encodedGuid) THEN result
    ELSE DecodeFrom(encodedGuid, i + 1,
            IF IndexOf(RAKNET_B64_CHARS, encodedGuid[i + 1]) >= 0
            THEN BitOr(result,
                       ShiftLeft(SixBits(IndexOf(RAKNET_B64_CHARS, encodedGuid[i + 1])),
                                 ShiftOf(i)))
            ELSE result)

NoBigInt == [kind |-> "null", bits |-> <<>>]

decodeRakNetGuid(encodedGuid) ==
    IF encodedGuid = <<>> THEN NoBigInt
    ELSE [kind |-> "bigint", bits |-> DecodeFrom(encodedGuid, 0, <<>>)]

\* the BigInt is 0n
IsZero(bits) == \A k \in 1..Len(bits) : bits[k] = 0

\* the bits up to the highest one set
RECURSIVE Significant(_)
Significant(bits) ==
    IF bits # <<>> /\ bits[Len(bits)] = 0
    THEN Significant(SubSeq(bits, 1, Len(bits) - 1)) ELSE bits

\* the hex digit of the bits 4j-3 .. 4j
Nibble(bits, j) ==
    LET bit(k) == IF k <= Len(bits) THEN bits[k] ELSE 0
    IN  bit(4 * j - 3) + 2 * bit(4 * j - 2) + 4 * bit(4 * j - 1) + 8 * bit(4 * j)

\* the hex digits of bits that end in a set bit, the highest digit first
HexDigitsOf(bits) ==
    [j \in 1..((Len(bits) + 3) \div 4) |->
        DigitChar(Nibble(bits, (Len(bits) + 3) \div 4 - j + 1))]

\* value.toString(16)
BigToHex(bits) == IF IsZero(bits) THEN <<48>> ELSE HexDigitsOf(Significant(bits))

\* str.padStart(16, '0')
PadStart16(str) == [k \in 1..(16 - Len(str)) |-> 48] \o str

NoGuid == <<>>

\* guidBigInt ? guidBigInt.toString(16).padStart(16, '0') : null
GuidOf(guidBigInt) ==
    IF guidBigInt.kind = "bigint" /\ ~IsZero(guidBigInt.bits)
    THEN PadStart16(BigToHex(guidBigInt.bits)) ELSE NoGuid

(***************************************************************************)
(* Sessions: the part of parseSession that the assembly and the            *)
(* enrichment read and write.                                              *)
(***************************************************************************)
MAP_API_BASE_URL == "https://gamelistassets.iondriver.com/bzcc"

\* x || null
OrNull(x) == IF x \in {UNDEF, NULL, ""} THEN NULL ELSE x

buildWorkshopUrl(modId) ==
    IF modId = "" \/ modId = "0"
    THEN <<>>
    ELSE <<"https://steamcommunity.com/sharedfiles/filedetails/?id=", modId>>

enrichMods(modIds) ==
    [i \in 1..Len(modIds) |->
        [id |-> modIds[i],
         name |-> IF modIds[i] = "0" THEN "Stock" ELSE NULL,
         workshopUrl |-> buildWorkshopUrl(modIds[i])]]

\* the enrichment fields of a session that no enrichment has set
NoTeamNames == [team1 |-> UNDEF, team2 |-> UNDEF]
NoImageUrl == <<UNDEF>>

\* the names of the players of a list
NamesOf(players) == [i \in 1..Len(players) |-> players[i].name]

\* the session object, from what the parsers made of the raw fields
SessionOf(raw, gameInfo, players, stateInfo, modIds) ==
        [id |-> raw.g,
         guid |-> GuidOf(decodeRakNetGuid(Chars(OrEmpty(raw.g)))),
         name |-> decodeBase64Name(raw.n),
         gameType |-> gameInfo.gameType,
         gameMode |-> gameInfo.gameMode,
         isTeamGame |-> gameInfo.isTeamGame,
         respawn |-> gameInfo.respawn,
         vehicleOnly |-> gameInfo.vehicleOnly,
         rawGameType |-> gameInfo.rawGameType,
         rawGameSubType |-> gameInfo.rawGameSubType,
         players |-> players,
         playerCount |-> Len(players),
         commanders |-> NamesOf(SelectSeq(players, LAMBDA p : p.isCommander)),
         hiddenPlayers |-> NamesOf(SelectSeq(players, LAMBDA p : p.isHidden)),
         state |-> stateInfo.state,
         stateDetail |-> stateInfo.stateDetail,
         serverInfoMode |-> stateInfo.serverInfoMode,
         hasOpenSlots |-> stateInfo.hasOpenSlots,
         isLocked |-> raw.l = Num(1),
         hasPassword |-> raw.k = Num(1),
         steamJoinUrl |-> buildSteamJoinUrl(raw),
         mapFile |-> raw.m,
         mods |-> enrichMods(modIds),
         primaryMod |-> IF modIds # <<>> THEN modIds[1] ELSE "0",
         isStock |-> modIds = <<>> \/ modIds = <<"0">>,
         gameBalance |->
             IF \E i \in 1..Len(modIds) : modIds[i] = VSR_MOD_ID
             THEN "VSR" ELSE NULL,
         _raw |-> raw,
         mapName |-> UNDEF, mapDescription |-> UNDEF,
         mapImageUrl |-> NoImageUrl, teamNames |-> NoTeamNames,
         vsrPools |-> UNDEF, vsrLoose |-> UNDEF, vsrAuthor |-> UNDEF,
         vsrMapSize |-> UNDEF, vsrBaseToBase |-> UNDEF]

\* (raw.pl || []).map((p, i) => parsePlayer(p, i, ...))
ParsePlayers(pl, gameInfo) ==
    [i \in 1..Len(pl) |->
        parsePlayer(pl[i], i - 1, gameInfo.isTeamGame,
                    gameInfo.gameMode = "MPI", gameInfo.gameMode)]

SessionWithPlayers(raw, gameInfo, players) ==
    SessionOf(raw, gameInfo, players, parseSessionState(raw.si, players),
              parseModIds(raw.mm))

SessionWithGame(raw, gameInfo) ==
    SessionWithPlayers(raw, gameInfo, ParsePlayers(raw.pl, gameInfo))

parseSession(raw) == SessionWithGame(raw, parseGameTypeAndMode(raw.gt, raw.gtd))

\* sessions.sort((a, b) => a.id.localeCompare(b.id)): a stable sort
RECURSIVE InsertById(_, _)
InsertById(x, sorted) ==
    IF sorted = <<>> THEN <<x>>
    ELSE IF LocaleRank(x.id) < LocaleRank(Head(sorted).id)
         THEN <<x>> \o sorted
         ELSE <<Head(sorted)>> \o InsertById(x, Tail(sorted))

SortById_Unsorted(list) == list

RECURSIVE SortById(_)
SortById(list) ==
    IF list = <<>> THEN <<>>
    ELSE InsertById(list[Len(list)], SortById(SubSeq(list, 1, Len(list) - 1)))

\* (rawData.GET || []).map(parseSession), sorted
AssembleSessions(rawList) ==
    SortById([i \in 1..Len(rawList) |-> parseSession(rawList[i])])

\* the key a session's map data is cached under
SessionKey(session) == <<session.primaryMod, session.mapFile>>

\* the map requests of enrichSessionsWithMapData: one per key, in the order
\* of the first session with the key, sessions without a map file left out
RECURSIVE MapRequests(_)
MapRequests(sessions) ==
    IF sessions = <<>> THEN <<>>
    ELSE LET before == MapRequests(SubSeq(sessions, 1, Len(sessions) - 1))
             last == sessions[Len(sessions)]
         IN  IF (\E i \in 1..Len(before) : before[i] = SessionKey(last))
                \/ last.mapFile = ""
             THEN before
             ELSE Append(before, SessionKey(last))

\* what the cache holds for a key; mapDataCache.get(key)
Absent == [kind |-> "absent"]
NullData == [kind |-> "null"]
CacheGet(cache, key) == IF key \in MapKeys THEN cache[key] ELSE Absent

parseMapData(data, mapFile) ==
    IF data.kind = "null" THEN NullData
    ELSE [kind |-> "data",
          name |-> OrNull(data.title),
          description |-> OrNull(data.description),
          imageUrl |-> IF OrNull(data.image) # NULL
                       THEN <<MAP_API_BASE_URL, "/", data.image>> ELSE <<>>,
          mapFile |-> mapFile,
          teamNames |-> [team1 |-> IF data.hasNetVars THEN OrNull(data.svar1)
                                   ELSE NULL,
                         team2 |-> IF data.hasNetVars THEN OrNull(data.svar2)
                                   ELSE NULL],
          hasMods |-> data.hasMods,
          mods |-> data.mods]

\* the defaults written through to the record the session was parsed from
ApplyMapDataElse_ThroughRaw(session) ==
    [session EXCEPT !.mapName = NULL, !.mapDescription = NULL,
                    !.mapImageUrl = <<>>,
                    !.teamNames = [team1 |-> NULL, team2 |-> NULL],
                    !._raw.m = ""]

\* the loop body of enrichSessionsWithMapData that applies the cached data
ApplyMapDataElse(session) ==
    [session EXCEPT !.mapName = NULL, !.mapDescription = NULL,
                    !.mapImageUrl = <<>>,
                    !.teamNames = [team1 |-> NULL, team2 |-> NULL]]

ApplyMapDataTo(session, mapData) ==
    IF mapData.kind = "data"
    THEN [session EXCEPT
            !.mapName = mapData.name,
            !.mapDescription = mapData.description,
            !.mapImageUrl = mapData.imageUrl,
            !.teamNames = mapData.teamNames,
            !.mods = [i \in 1..Len(session.mods) |->
                        LET mod == session.mods[i]
                        IN  IF /\ mapData.hasMods
                               /\ mod.id \in DOMAIN mapData.mods
                               /\ OrNull(mod.name) = NULL
                            THEN [mod EXCEPT !.name =
                                    IF OrNull(mapData.mods[mod.id].name) # NULL
                                    THEN mapData.mods[mod.id].name
                                    ELSE OrNull(mapData.mods[mod.id].workshop_name)]
                            ELSE mod]]
    ELSE ApplyMapDataElse(session)

ApplyMapData(sessions, cache) ==
    [i \in 1..Len(sessions) |->
        ApplyMapDataTo(sessions[i], CacheGet(cache, SessionKey(sessions[i])))]

\* buildVsrMapLookup: the caller's entries that name a file, alone or laid
\* over the baked-in table
RECURSIVE UserVsrLookup(_, _)
UserVsrLookup(entries, m) ==
    IF entries = <<>> THEN NoVsr
    ELSE LET e == entries[Len(entries)]
         IN  IF e.file # "" /\ e.file = m
             THEN [has |-> TRUE, pools |-> e.pools, loose |-> e.loose,
                   author |-> e.author, size |-> e.size,
                   baseToBase |-> e.baseToBase]
             ELSE UserVsrLookup(SubSeq(entries, 1, Len(entries) - 1), m)

buildVsrMapLookup(vsrMapData, vsrMapDataMode) ==
    [m \in MapFiles |->
        LET user == UserVsrLookup(vsrMapData, m)
        IN  CASE vsrMapDataMode = "replace" -> user
              [] vsrMapDataMode = "merge" ->
                    IF user.has THEN user ELSE VSR_MAP_DATA[m]
              [] OTHER -> VSR_MAP_DATA[m]]

enrichSessionsWithVsrData(sessions, vsrLookup) ==
    [i \in 1..Len(sessions) |->
        LET vsrData == vsrLookup[sessions[i].mapFile]
        IN  IF vsrData.has
            THEN [sessions[i] EXCEPT
                    !.vsrPools = vsrData.pools, !.vsrLoose = vsrData.loose,
                    !.vsrAuthor = vsrData.author, !.vsrMapSize = vsrData.size,
                    !.vsrBaseToBase = vsrData.baseToBase]
            ELSE [sessions[i] EXCEPT
                    !.vsrPools = NULL, !.vsrLoose = NULL, !.vsrAuthor = NULL,
                    !.vsrMapSize = NULL, !.vsrBaseToBase = NULL]]

(***************************************************************************)
(* History kept beside the other calls when a fallback succeeds.           *)
(***************************************************************************)
NoteFallbackOk(g, p, last) ==
    [g EXCEPT !.since = IF p # last THEN "none" ELSE @,
              !.raced = IF g.pc = "directBody" THEN TRUE ELSE @]

NoteDirectOk(g) ==
    [g EXCEPT !.since = IF @ = "same" THEN "direct" ELSE @,
              !.raced = IF g.pc = "directBody" THEN FALSE ELSE @]

\* the history a call starts with
SinceAtCall(lastFallback, lastRoute) ==
    IF lastFallback = NULL THEN "none"
    ELSE IF lastRoute = lastFallback THEN "same" ELSE "direct"

\* the call is between its first request and its settling
Running(f) == f.pc \notin {"idle", "done"}

\* the calls once a call has started in slot c with frame f, the memory
\* being mem: the new call notes the memory unless another call is running,
\* and the other calls are no longer the only one to have run
StartCall(frames, c, f, mem) ==
    [d \in Slots |->
        IF d = c
        THEN [f EXCEPT !.atCall =
                IF \E e \in Slots \ {c} : Running(frames[e])
                THEN "none" ELSE mem]
        ELSE [frames[d] EXCEPT !.atCall = "none"]]


(***************************************************************************)
(* A fetchMapData call.                                                    *)
(*   pc      where the call is suspended                                   *)
(*   key     the (mod, map file) pair asked for                            *)
(*   idx     the position in CORS_PROXIES of the proxy being tried         *)
(*   result  the value returned: null or map data                          *)
(***************************************************************************)
IdleLookup == [pc |-> "idle", key |-> <<"0", "">>, idx |-> 0, result |-> Absent]

\* the call is waiting for a response
InFlight(l) == l.pc \notin {"idle", "done"}

ReturnLookup(l, result) == [l EXCEPT !.pc = "done", !.result = result]

\* the call up to its first await: no map file, a remembered value, or the
\* direct request
BeginFetchMapData(key, cache) ==
    LET l == [IdleLookup EXCEPT !.key = key]
    IN  IF key[2] = "" THEN ReturnLookup(l, NullData)
        ELSE IF CacheGet(cache, key).kind # "absent"
             THEN ReturnLookup(l, CacheGet(cache, key))
             ELSE [l EXCEPT !.pc = "direct"]

\* the head of the proxy loop inside the catch, and the code after it
MapProxyLoop(l) ==
    IF l.idx < Len(CORS_PROXIES)
    THEN [l EXCEPT !.pc = "proxy", !.idx = @ + 1]
    ELSE ReturnLookup(l, NullData)

\* the response of the direct request: a non-success status leaves the try
\* without entering the catch
OnMapDirectResponse(l, r) ==
    CASE r = "ok" -> [l EXCEPT !.pc = "directBody"]
      [] r = "nack" -> ReturnLookup(l, NullData)
      [] OTHER -> MapProxyLoop(l)

OnMapDirectBody(l, b) ==
    IF b.kind = "bad" THEN MapProxyLoop(l)
    ELSE ReturnLookup(l, parseMapData(b, l.key[2]))

OnMapProxyResponse(l, r) ==
    IF r = "ok" THEN [l EXCEPT !.pc = "proxyBody"] ELSE MapProxyLoop(l)

OnMapProxyBody(l, b) ==
    IF b.kind = "bad" THEN MapProxyLoop(l)
    ELSE ReturnLookup(l, parseMapData(b, l.key[2]))

\* mapDataCache.set(cacheKey, result), reached by every call that returns
\* after a request
CacheAfter(cache, l) ==
    IF l.pc = "done" THEN [cache EXCEPT ![l.key] = l.result] ELSE cache

EmptyCache == [k \in MapKeys |-> Absent]

(***************************************************************************)
(* A fetchSessions call.                                                   *)
(*   pc        "raw" while fetchRaw is awaited, "maps" while the map       *)
(*             lookups are awaited                                         *)
(*   slot      the slot of the fetchRaw call it awaits                     *)
(*   opts      the options of the call                                     *)
(*   rawData   the value fetchRaw returned, here its GET list              *)
(*   sessions  the session list so far                                     *)
(*   requests  the keys of the map lookups, md[i] serving requests[i]      *)
(*   events    the status events of fetchSessions itself                   *)
(*   result    "none" while running, then "ok" or the error thrown         *)
(***************************************************************************)
NoVsrArg == [given |-> FALSE, entries |-> <<>>]
VsrArg(entries) == [given |-> TRUE, entries |-> entries]

Options(maps, vsr, data, mode, onStatus, proxyUrl) ==
    [enrichMaps |-> maps, enrichVsrMaps |-> vsr,
     vsrMapData |-> data, vsrMapDataMode |-> mode,
     onStatus |-> onStatus, proxyUrl |-> proxyUrl]

DefaultOptions == Options(FALSE, FALSE, NoVsrArg, UNDEF, FALSE, NoProxy)

SessionOptions ==
    { DefaultOptions,
      Options(TRUE, FALSE, NoVsrArg, UNDEF, TRUE, NoProxy),
      Options(TRUE, TRUE, VsrArg(UserVsrData), "merge", FALSE, NoProxy),
      Options(FALSE, TRUE, VsrArg(UserVsrData), "replace", FALSE, NoProxy),
      Options(FALSE, TRUE, NoVsrArg, UNDEF, FALSE, CustomProxy),
      Options(FALSE, TRUE, VsrArg(UserVsrData), UNDEF, TRUE, NoProxy),
      Options(TRUE, FALSE, NoVsrArg, "append", TRUE, NoProxy),
      Options(TRUE, TRUE, VsrArg(<<>>), "append", FALSE, NoProxy) }

IdleSessions ==
    [pc |-> "idle", slot |-> 1, opts |-> DefaultOptions, rawData |-> <<>>,
     sessions |-> <<>>, requests |-> <<>>, events |-> <<>>, result |-> "none"]

EmitS(s, step, status) ==
    IF s.opts.onStatus
    THEN [s EXCEPT !.events = Append(@, [step |-> step, status |-> status])]
    ELSE s

ValidOptions_ModeUnchecked(opts) ==
    ~(opts.vsrMapData.given /\ opts.vsrMapDataMode = UNDEF)

\* the two checks at the head of fetchSessions
ValidOptions(opts) ==
    /\ ~(opts.vsrMapData.given /\ opts.vsrMapDataMode = UNDEF)
    /\ opts.vsrMapDataMode \in {UNDEF, "replace", "merge"}

\* the lookup table fetchSessions hands to enrichSessionsWithVsrData
VsrLookupOf(opts) ==
    IF opts.vsrMapData.given
    THEN buildVsrMapLookup(opts.vsrMapData.entries, opts.vsrMapDataMode)
    ELSE VSR_MAP_DATA

\* fetchSessions from the end of the map lookups to its return
FinishSessions(s, cache) ==
    LET s1 == IF s.opts.enrichMaps
              THEN EmitS([s EXCEPT !.sessions = ApplyMapData(@, cache)],
                         "enrich-maps", "success")
              ELSE s
        s2 == IF s.opts.enrichVsrMaps
              THEN EmitS(EmitS([s1 EXCEPT !.sessions =
                                  enrichSessionsWithVsrData(@, VsrLookupOf(s.opts))],
                               "enrich-vsr", "pending"),
                         "enrich-vsr", "success")
              ELSE s1
    IN  EmitS([s2 EXCEPT !.pc = "done", !.result = "ok"], "complete", "success")

\* the lookups of a fetchSessions call have all returned
LookupsDone(s, m) == \A i \in 1..Len(s.requests) : m[i].pc = "done"

\* fetchSessions from the return of fetchRaw to its next await, or to its
\* return when nothing is left to wait for
OnRawData(s, raw, cache, m) ==
    LET s1 == EmitS([s EXCEPT !.rawData = raw,
                              !.sessions = AssembleSessions(raw)],
                    "parse", "pending")
        reqs == MapRequests(s1.sessions)
        s2 == EmitS([s1 EXCEPT !.requests = reqs], "enrich-maps", "pending")
        m2 == [i \in DOMAIN m |->
                 IF i \in 1..Len(reqs) THEN BeginFetchMapData(reqs[i], cache)
                 ELSE m[i]]
    IN  IF ~s.opts.enrichMaps
        THEN [fs |-> FinishSessions(s1, cache), md |-> m]
        ELSE IF LookupsDone(s2, m2)
             THEN [fs |-> FinishSessions(s2, cache), md |-> m2]
             ELSE [fs |-> [s2 EXCEPT !.pc = "maps"], md |-> m2]

\* what the fetchRaw call of slot c, left in frame f, means to the
\* fetchSessions call: nothing unless it awaits this call and the call has
\* settled
OnFetchRawStep(s, c, f, raw, cache, m) ==
    IF s.pc = "raw" /\ s.slot = c /\ f.pc = "done"
    THEN IF f.result = "data"
         THEN OnRawData(s, raw, cache, m)
         ELSE [fs |-> [s EXCEPT !.pc = "done", !.result = "FetchError"],
               md |-> m]
    ELSE [fs |-> s, md |-> m]

(***************************************************************************)
(* The actions.  A step runs from the arrival of a response (or from a     *)
(* call) to the next request the code waits for; what resumes in between   *)
(* without waiting for the network belongs to the same step.               *)
(***************************************************************************)
LookupIds == 0..Cardinality(MapKeys)    \* 0: a caller's own fetchMapData
SessionSlots == {1}                     \* the slot fetchSessions fetches in

\* no synchronous function is being called
NoCalc == [fn |-> "none"]

Init ==
    /\ lastSuccessfulMethod = NULL
    /\ mapDataCache = EmptyCache
    /\ fr = [c \in Slots |-> IdleFrame]
    /\ fs = IdleSessions
    /\ md = [i \in LookupIds |-> IdleLookup]
    /\ lastFallbackOk = NULL
    /\ lastRouteOk = NULL
    /\ calc = NoCalc

\* the fetchRaw call of slot c moves to frame f, the other calls being as
\* in frames.  A fetchSessions call that awaits it resumes when it settles:
\* the call has returned to its caller and leaves the slot, and the body
\* that was read is one of RawResponses
Resume(c, f, frames) ==
    \E raw \in IF fs.pc = "raw" /\ fs.slot = c /\ f.result = "data"
               THEN RawResponses ELSE {<<>>} :
        LET n == OnFetchRawStep(fs, c, f, raw, mapDataCache, md)
        IN  /\ fr' = [frames EXCEPT ![c] =
                        IF fs.pc = "raw" /\ fs.slot = c /\ f.pc = "done"
                        THEN IdleFrame ELSE f]
            /\ fs' = n.fs
            /\ md' = n.md
            /\ UNCHANGED <<mapDataCache, calc>>

\* no raw request is in flight.  The steps of fetchRaw between two of its
\* requests touch neither the map cache nor a map lookup, and the steps of
\* a caller's own lookup touch nothing of fetchRaw: their interleavings are
\* taken up to the order of such steps, the lookup's steps falling where no
\* raw request is in flight
Quiet == \A c \in Slots : fr[c].pending = {}

\* fetchRaw(options) is called, in a free slot or in the place of a call
\* that has settled
FetchRawCall(c, proxyUrl, onStatus) ==
    /\ fr[c].pc \in {"idle", "done"}
    /\ fs.pc = "idle" \/ fs.slot # c
    /\ fr' = StartCall(fr, c,
                       BeginFetchRaw(proxyUrl, onStatus,
                                     SinceAtCall(lastFallbackOk, lastRouteOk)),
                       lastSuccessfulMethod)
    /\ UNCHANGED <<lastSuccessfulMethod, mapDataCache, fs, md, lastFallbackOk,
                   lastRouteOk,
                   calc>>

SpecificResponse(c, r) ==
    /\ fr[c].pc = "specific"
    /\ Resume(c, OnSpecificResponse(fr[c], r), fr)
    /\ UNCHANGED <<lastSuccessfulMethod, lastFallbackOk, lastRouteOk>>

SpecificBody(c, b) ==
    /\ fr[c].pc = "specificBody"
    /\ Resume(c, OnSpecificBody(fr[c], b), fr)
    /\ UNCHANGED <<lastSuccessfulMethod, lastFallbackOk, lastRouteOk>>

DirectResponse(c, r) ==
    /\ fr[c].pc = "direct"
    /\ lastSuccessfulMethod' = MemAfterDirect(lastSuccessfulMethod, r)
    /\ lastRouteOk' = IF r = "ok" THEN DIRECT ELSE lastRouteOk
    /\ Resume(c, OnDirectResponse(fr[c], r, lastSuccessfulMethod),
              [d \in Slots |-> IF r = "ok" THEN NoteDirectOk(fr[d]) ELSE fr[d]])
    /\ UNCHANGED lastFallbackOk

DirectBody(c, b) ==
    /\ fr[c].pc = "directBody"
    /\ Resume(c, OnDirectBody(fr[c], b), fr)
    /\ UNCHANGED <<lastSuccessfulMethod, lastFallbackOk, lastRouteOk>>

ProxyResponse(c, r) ==
    /\ fr[c].pc = "proxy"
    /\ Resume(c, OnProxyResponse(fr[c], r), fr)
    /\ UNCHANGED <<lastSuccessfulMethod, lastFallbackOk, lastRouteOk>>

ProxyBody(c, b) ==
    /\ fr[c].pc = "proxyBody"
    /\ LET p == fr[c].proxyOrder[fr[c].idx]
       IN  /\ Resume(c, OnProxyBody(fr[c], b),
                     [d \in Slots |->
                        IF b = "json"
                        THEN NoteFallbackOk(fr[d], p, lastFallbackOk)
                        ELSE fr[d]])
           /\ lastSuccessfulMethod' = MemAfterProxyBody(lastSuccessfulMethod, p, b)
           /\ lastFallbackOk' = IF b = "json" THEN p ELSE lastFallbackOk
           /\ lastRouteOk' = IF b = "json" THEN p ELSE lastRouteOk

Next ==
    \E c \in Slots :
        \/ \E u \in ProxyUrls, o \in BOOLEAN : FetchRawCall(c, u, o)
        \/ \E r \in Responses : SpecificResponse(c, r)
        \/ \E b \in Bodies : SpecificBody(c, b)
        \/ \E r \in Responses : DirectResponse(c, r)
        \/ \E b \in Bodies : DirectBody(c, b)
        \/ \E r \in Responses : ProxyResponse(c, r)
        \/ \E b \in Bodies : ProxyBody(c, b)

Spec == Init /\ [][Next]_vars

(***************************************************************************)
(* fetchSessions, fetchMapData and clearMapCache.                          *)
(***************************************************************************)
\* fetchSessions(options) is called: rejected by the checks, or suspended
\* in fetchRaw
FetchSessionsCall(c, opts) ==
    /\ fs.pc = "idle"
    /\ fr[c].pc \in {"idle", "done"}
    /\ IF ValidOptions(opts)
       THEN /\ fs' = [IdleSessions EXCEPT !.pc = "raw", !.slot = c,
                                          !.opts = opts]
            /\ fr' = StartCall(fr, c,
                               BeginFetchRaw(opts.proxyUrl, opts.onStatus,
                                             SinceAtCall(lastFallbackOk,
                                                         lastRouteOk)),
                               lastSuccessfulMethod)
            /\ md' = [i \in LookupIds |-> IF i = 0 THEN md[i] ELSE IdleLookup]
       ELSE /\ fs' = [IdleSessions EXCEPT !.pc = "done", !.slot = c,
                                          !.opts = opts,
                                          !.result = "ConfigError"]
            /\ UNCHANGED <<fr, md>>
    /\ UNCHANGED <<lastSuccessfulMethod, mapDataCache, lastFallbackOk,
                   lastRouteOk,
                   calc>>

\* the caller takes the result of fetchSessions, which frees the slot
ReturnSessions ==
    /\ fs.pc = "done"
    /\ fs' = IdleSessions
    /\ md' = [i \in LookupIds |-> IF i = 0 THEN md[i] ELSE IdleLookup]
    /\ UNCHANGED <<lastSuccessfulMethod, mapDataCache, fr, lastFallbackOk,
                   lastRouteOk,
                   calc>>

\* a caller's own fetchMapData(mapFile, modId)
FetchMapDataCall(key) ==
    /\ Quiet
    /\ md[0].pc \in {"idle", "done"}
    /\ md' = [md EXCEPT ![0] = BeginFetchMapData(key, mapDataCache)]
    /\ UNCHANGED <<lastSuccessfulMethod, mapDataCache, fr, fs, lastFallbackOk,
                   lastRouteOk,
                   calc>>

\* a fetchMapData call moves to frame l: the cache is written if it
\* returns, and fetchSessions resumes when its last lookup returns
LookupStep(i, l) ==
    /\ Quiet
    /\ md' = [md EXCEPT ![i] = l]
    /\ mapDataCache' = CacheAfter(mapDataCache, l)
    /\ fs' = IF fs.pc = "maps" /\ LookupsDone(fs, md')
             THEN FinishSessions(fs, mapDataCache')
             ELSE fs
    /\ UNCHANGED <<lastSuccessfulMethod, fr, lastFallbackOk, lastRouteOk,
                   calc>>

MapDirectResponse(i, r) ==
    /\ md[i].pc = "direct"
    /\ LookupStep(i, OnMapDirectResponse(md[i], r))

MapDirectBody(i, b) ==
    /\ md[i].pc = "directBody"
    /\ LookupStep(i, OnMapDirectBody(md[i], b))

MapProxyResponse(i, r) ==
    /\ md[i].pc = "proxy"
    /\ LookupStep(i, OnMapProxyResponse(md[i], r))

MapProxyBody(i, b) ==
    /\ md[i].pc = "proxyBody"
    /\ LookupStep(i, OnMapProxyBody(md[i], b))

ClearMapCache ==
    /\ Quiet
    /\ mapDataCache' = EmptyCache
    /\ UNCHANGED <<lastSuccessfulMethod, fr, fs, md, lastFallbackOk,
                   lastRouteOk,
                   calc>>

UserKeys == {<<VSR_MOD_ID, "vsr4pool">>, <<"0", "">>}

NextSessions ==
    \/ \E c \in SessionSlots :
        \/ \E o \in SessionOptions : FetchSessionsCall(c, o)
        \/ \E u \in ProxyUrls, o \in BOOLEAN : FetchRawCall(c, u, o)
        \/ \E r \in Responses : SpecificResponse(c, r)
        \/ \E b \in Bodies : SpecificBody(c, b)
        \/ \E r \in Responses : DirectResponse(c, r)
        \/ \E b \in Bodies : DirectBody(c, b)
        \/ \E r \in Responses : ProxyResponse(c, r)
        \/ \E b \in Bodies : ProxyBody(c, b)
    \/ \E k \in UserKeys : FetchMapDataCall(k)
    \/ \E i \in LookupIds :
        \/ \E r \in Responses : MapDirectResponse(i, r)
        \/ \E b \in MapBodies : MapDirectBody(i, b)
        \/ \E r \in Responses : MapProxyResponse(i, r)
        \/ \E b \in MapBodies : MapProxyBody(i, b)
    \/ ClearMapCache
    \/ ReturnSessions

SpecSessions == Init /\ [][NextSessions]_vars

(***************************************************************************)
(* Properties of fetchRaw.                                                 *)
(***************************************************************************)
\* the calls made without options.proxyUrl
Fallbacking == {c \in Slots : fr[c].pc # "idle" /\ fr[c].proxyUrl = NoProxy}

\* the calls made with options.proxyUrl
Specific == {c \in Slots : fr[c].pc # "idle" /\ fr[c].proxyUrl # NoProxy}

Last(seq) == seq[Len(seq)]

\* the remembered fallback first, the others in configured order
PreferFirst(p) == <<p>> \o SelectSeq(CORS_PROXIES, LAMBDA q : q # p)

\* call c returns data in this step
ReturnsData(c) ==
    /\ fr[c].pc \notin {"idle", "done"}
    /\ fr[c].proxyUrl = NoProxy
    /\ fr'[c].pc = "done"
    /\ fr'[c].result = "data"

\* C1: without options.proxyUrl the routes are tried one after the other,
\* the primary first: at most one request is in flight, it is the one of
\* the last route tried, every route tried before it has failed, the
\* fallbacks are tried in the computed order, and the call returns the data
\* of the first route that succeeds.
C1_Sequential ==
    \A c \in Fallbacking :
        LET f == fr[c]
        IN  /\ Cardinality(f.pending) <= 1
            /\ f.pending \subseteq {Last(f.tried)}
            /\ f.tried[1] = DIRECT
            /\ Tail(f.tried) = SubSeq(f.proxyOrder, 1, Len(f.tried) - 1)
            /\ Len(f.outs) \in {Len(f.tried) - 1, Len(f.tried)}
            /\ f.pending # {} => Len(f.outs) = Len(f.tried) - 1
            /\ \A i \in 1..(Len(f.tried) - 1) : f.outs[i] = "fail"
            /\ f.pc = "done" /\ f.result = "data"
                => /\ Len(f.outs) = Len(f.tried)
                   /\ Last(f.outs) = "ok"
                   /\ f.via = Last(f.tried)

C1_Witness ==
    \E c \in Fallbacking :
        /\ fr[c].pc = "done"
        /\ fr[c].result = "data"
        /\ Len(fr[c].tried) = 3

\* C2: a call without options.proxyUrl fails only after the primary and
\* every fallback have been tried and have failed.
C2_FailsAfterAllRoutes ==
    \A c \in Fallbacking :
        fr[c].pc = "done" /\ fr[c].result # "data"
            => /\ Len(fr[c].tried) = 1 + Len(CORS_PROXIES)
               /\ \A i \in 1..Len(fr[c].outs) : fr[c].outs[i] = "fail"

\* C3 as stated: once a fallback has succeeded, a later call whose primary
\* fails tries that fallback first and the others in configured order, as
\* long as no other fallback has succeeded since.
C3_AsStated ==
    [][\A c \in Slots :
          fr[c].pc = "direct" /\ fr[c].since # "none" /\ fr'[c].pc = "proxy"
              => /\ fr'[c].proxyOrder = PreferFirst(lastFallbackOk)
                 /\ fr'[c].tried = <<DIRECT, lastFallbackOk>>]_vars

\* C3: once a fallback has succeeded, a later call whose primary fails tries
\* that fallback first and the others in configured order, as long as no
\* other route, the primary included, has succeeded since; and the
\* fallbacks are tried in that order.
C3_PrefersLastSuccess ==
    /\ [](\A c \in Fallbacking :
            Tail(fr[c].tried) = SubSeq(fr[c].proxyOrder, 1, Len(fr[c].tried) - 1))
    /\ [][\A c \in Slots :
            fr[c].pc = "direct" /\ fr[c].since = "same" /\ fr'[c].pc = "proxy"
                => /\ fr'[c].proxyOrder = PreferFirst(lastRouteOk)
                   /\ fr'[c].tried = <<DIRECT, lastRouteOk>>]_vars

C3_Witness ==
    \E c \in Fallbacking :
        /\ fr[c].proxyOrder = PreferFirst(CORS_PROXIES[2])
        /\ fr[c].tried = <<DIRECT, CORS_PROXIES[2], CORS_PROXIES[1]>>

\* C5: with options.proxyUrl exactly one request is made, through that
\* route; the call fulfils or rejects as that request does; and none of its
\* steps changes the memory.
C5_SpecificRouteOnly ==
    /\ [](\A c \in Specific :
            LET f == fr[c]
            IN  /\ f.tried = <<f.proxyUrl>>
                /\ f.pending \subseteq {f.proxyUrl}
                /\ f.proxyOrder = <<>>
                /\ f.pc = "done"
                    => /\ Len(f.outs) = 1
                       /\ f.result = "data" <=> f.outs[1] = "ok"
                       /\ f.result = "data" => f.via = f.proxyUrl)
    /\ [][\A c \in Slots :
            fr[c].pc \in {"specific", "specificBody"} /\ fr'[c] # fr[c]
                => lastSuccessfulMethod' = lastSuccessfulMethod]_vars

C5_Witness ==
    \E c \in Specific :
        /\ fr[c].pc = "done"
        /\ fr[c].result = "data"
        /\ fr[c].proxyUrl = CORS_PROXIES[2]
        /\ lastSuccessfulMethod = CORS_PROXIES[3]

C4_OrderIsPermutation ==
    LET order == getProxyOrder(lastSuccessfulMethod)
    IN  /\ Len(order) = Len(CORS_PROXIES)
        /\ \A i \in 1..Len(order) : order[i] \in ProxySet
        /\ \A p \in ProxySet :
              Cardinality({i \in 1..Len(order) : order[i] = p}) = 1

C4_Witness ==
    /\ lastSuccessfulMethod = CORS_PROXIES[3]
    /\ getProxyOrder(lastSuccessfulMethod) # CORS_PROXIES
    /\ fs.pc = "done"
    /\ fs.result = "ok"

\* the events a call has handed to onStatus are well formed: an
\* 'attempting' event is followed by the outcome of the same route, an
\* outcome follows the 'attempting' event of its route, no 'attempting'
\* event is left open when the call settles, and the all-routes-failed
\* event is there exactly when the call has failed, last, after the
\* 'failed' event of the last fallback
EventsWellFormed(f) ==
    LET e == f.events
    IN  /\ \A i \in 1..Len(e) :
              e[i].status = "pending"
                  => IF i < Len(e)
                     THEN /\ e[i + 1].step = e[i].step
                          /\ e[i + 1].proxy = e[i].proxy
                          /\ e[i + 1].status \in {"success", "failed"}
                     ELSE f.pc # "done"
        /\ \A i \in 1..Len(e) :
              e[i].status # "pending" /\ e[i].step # "error"
                  => /\ i > 1
                     /\ e[i - 1] = Ev(e[i].step, "pending", e[i].proxy)
        /\ \A i \in 1..Len(e) :
              e[i].step = "error"
                  => /\ i = Len(e)
                     /\ i > 1
                     /\ e[i - 1] = Ev("proxy", "failed",
                                      Hostname(Last(f.proxyOrder)))
        /\ f.pc = "done"
              => (f.result # "data" <=> e # <<>> /\ Last(e).step = "error")

\* C7: for a call without options.proxyUrl the status events are well
\* formed.
C7_StatusEvents ==
    \A c \in Fallbacking : fr[c].onStatus => EventsWellFormed(fr[c])

(***************************************************************************)
(* A call run alone: the frame a call made with an empty memory ends in    *)
(* when route x answers with status answers[x].r and body answers[x].b.    *)
(***************************************************************************)
Routes == {DIRECT} \cup ProxySet

RouteAnswers ==
    {[r |-> "ok", b |-> "json"], [r |-> "ok", b |-> "bad"],
     [r |-> "nack", b |-> "bad"], [r |-> "err", b |-> "bad"]}

RECURSIVE Drive(_, _, _)
Drive(f, answers, mem) ==
    CASE f.pc = "direct" ->
            Drive(OnDirectResponse(f, answers[DIRECT].r, mem), answers,
                  MemAfterDirect(mem, answers[DIRECT].r))
      [] f.pc = "directBody" ->
            Drive(OnDirectBody(f, answers[DIRECT].b), answers, mem)
      [] f.pc = "proxy" ->
            Drive(OnProxyResponse(f, answers[f.proxyOrder[f.idx]].r), answers,
                  mem)
      [] f.pc = "proxyBody" ->
            LET p == f.proxyOrder[f.idx]
            IN  Drive(OnProxyBody(f, answers[p].b), answers,
                      MemAfterProxyBody(mem, p, answers[p].b))
      [] OTHER -> f

Alone(answers) == Drive(BeginFetchRaw(NoProxy, FALSE, "none"), answers, NULL)

\* the answers of the routes agree with what call f has seen of them
Seen(f, answers) ==
    \A i \in 1..Len(f.outs) :
        LET a == answers[f.tried[i]]
        IN  CASE f.outs[i] = "ok" -> a.r = "ok" /\ a.b = "json"
              [] f.outs[i] = "bad" -> a.r = "ok" /\ a.b = "bad"
              [] OTHER -> IF f.tried[i] = DIRECT THEN a.r # "ok"
                          ELSE ~(a.r = "ok" /\ a.b = "json")

BadVsrConfig(opts) ==
    \/ opts.vsrMapData.given /\ opts.vsrMapDataMode = UNDEF
    \/ opts.vsrMapDataMode \notin {UNDEF, "replace", "merge"}

\* C9: a fetchSessions call with caller data and no mode, or with a mode
\* other than 'replace' and 'merge', is rejected at once: it never waits
\* for anything and emits no event, and the step of the call leaves the
\* fetchRaw calls (their requests and events), the map lookups, the memory
\* and the map cache as they were.
C9_RejectedBeforeNetwork ==
    /\ [](fs.pc # "idle" /\ BadVsrConfig(fs.opts)
            => /\ fs.pc = "done"
               /\ fs.result = "ConfigError"
               /\ fs.events = <<>>
               /\ fs.requests = <<>>)
    /\ [][fs.pc = "idle" /\ fs'.pc # "idle" /\ BadVsrConfig(fs'.opts)
            => UNCHANGED <<fr, md, lastSuccessfulMethod, mapDataCache>>]_vars

C9_Witness ==
    /\ fs.pc = "done"
    /\ fs.result = "ConfigError"
    /\ fs.opts.vsrMapData.given
    /\ fs.opts.vsrMapDataMode = UNDEF
    /\ fs.opts.onStatus
    /\ lastSuccessfulMethod = CORS_PROXIES[2]
    /\ mapDataCache[<<VSR_MOD_ID, "vsr4pool">>].kind = "data"

\* the sessions fetchSessions returns for the same raw data and options with
\* enrichMaps off
WithoutMaps(s) ==
    FinishSessions([s EXCEPT !.opts.enrichMaps = FALSE,
                             !.sessions = AssembleSessions(s.rawData)],
                   EmptyCache).sessions

\* the map lookup of session i of call s returned null
LookupFailed(s, i) ==
    \E j \in 1..Len(s.requests) :
        /\ s.requests[j] = SessionKey(s.sessions[i])
        /\ md[j].result.kind = "null"

\* C10: with enrichMaps on, in the result of fetchSessions a session whose
\* map lookup failed has mapName, mapDescription, mapImageUrl and both team
\* names null, and its other fields are as with enrichMaps off.
C10_FailedLookupLeavesNull ==
    fs.pc = "done" /\ fs.result = "ok" /\ fs.opts.enrichMaps
        => \A i \in 1..Len(fs.sessions) :
              LookupFailed(fs, i)
                  => fs.sessions[i] = ApplyMapDataElse(WithoutMaps(fs)[i])

(***************************************************************************)
(* The synchronous functions, called on their own.  calc holds one call:   *)
(* the function, its arguments, and its result once it has returned.       *)
(***************************************************************************)
RawPool == {RawVsr, RawStock, RawVsr2, RawNoMap, RawDup}

\* the raw collections: the lists over RawPool of length up to MaxRaw
RawLists == UNION {[1..n -> RawPool] : n \in 0..MaxRaw}

AssembleInputs ==
    {[fn |-> "assemble", done |-> FALSE, raw |-> l, out |-> <<>>] :
        l \in RawLists}

\* the session list of fetchSessions for a raw collection: every entry
\* normalized, the list sorted by id
AssembleCall ==
    /\ calc.fn = "assemble"
    /\ ~calc.done
    /\ calc' = [calc EXCEPT !.done = TRUE, !.out = AssembleSessions(calc.raw)]
    /\ UNCHANGED <<lastSuccessfulMethod, mapDataCache, fr, fs, md,
                   lastFallbackOk, lastRouteOk>>

\* buildDataCache over the sessions parsed from a raw list
CachePool == {RawVsr, RawVsr2, RawNoMap, RawDup, RawOdd}
CacheInputs ==
    {[fn |-> "cache", done |-> FALSE,
      sessions |-> [i \in 1..Len(l) |-> parseSession(l[i])], out |-> <<>>] :
        l \in UNION {[1..n -> CachePool] : n \in 0..MaxRaw}}

BuildDataCacheCall ==
    /\ calc.fn = "cache"
    /\ ~calc.done
    /\ calc' = [calc EXCEPT !.done = TRUE, !.out = buildDataCache(calc.sessions)]
    /\ UNCHANGED <<lastSuccessfulMethod, mapDataCache, fr, fs, md,
                   lastFallbackOk, lastRouteOk>>

\* parseSessionState over a server info mode, absent or from 0 to one past
\* the last one, and a roster given by its stats
MaxStatPlayers == 2
StatValues == {None, Num(0), Num(2)}
StatPlayers == [score : StatValues, kills : StatValues, deaths : StatValues]
StatRosters == UNION {[1..n -> StatPlayers] : n \in 0..MaxStatPlayers}
ServerInfoModes == {None} \cup {Num(si) : si \in 0..6}
StateInputs ==
    {[fn |-> "state", done |-> FALSE, si |-> si, players |-> ps, out |-> <<>>] :
        si \in ServerInfoModes, ps \in StatRosters}

ParseSessionStateCall ==
    /\ calc.fn = "state"
    /\ ~calc.done
    /\ calc' = [calc EXCEPT !.done = TRUE,
                            !.out = parseSessionState(calc.si, calc.players)]
    /\ UNCHANGED <<lastSuccessfulMethod, mapDataCache, fr, fs, md,
                   lastFallbackOk, lastRouteOk>>

\* parseSession over raw sessions that differ in game type and sub-type,
\* server info mode and roster; the players of a roster differ in team slot
\* and kill count
MaxRoster == 2
SlotValues == {None} \cup {Num(t) : t \in {0, 1, 5, 6, 7, 10, 11, 255}}
RosterPlayers ==
    {RawPlayer(B64(<<65, 108>>), RawId("S", IdNum(0, 7)), k, None, None, t) :
        k \in {Num(0), Num(3)}, t \in SlotValues}
Rosters == UNION {[1..n -> RosterPlayers] : n \in 0..MaxRoster}

\* gt and gtd: deathmatch alone and in teams, with listed and unlisted
\* sub-modes; strategy with each listed modeBase and with unlisted ones
GameKinds ==
    {<<None, None>>, <<Num(0), Num(12)>>, <<Num(3), Num(12)>>,
     <<Num(1), None>>, <<Num(1), Num(1)>>, <<Num(1), Num(2)>>,
     <<Num(1), Num(14 * 4 + 2)>>, <<Num(1), Num(14 * 519 + 1)>>,
     <<Num(2), None>>, <<Num(2), Num(11)>>, <<Num(2), Num(12)>>,
     <<Num(2), Num(13)>>, <<Num(2), Num(5)>>, <<Num(2), Num(14 + 13)>>}

RawSession(kind, si, pl) ==
    [g |-> "B2", n |-> B64(<<86, 83, 82>>), m |-> "vsr4pool",
     mm |-> <<VSR_MOD_ID>>, gt |-> kind[1], gtd |-> kind[2], si |-> si,
     pl |-> pl, l |-> None, k |-> None]

\* identities: absent, empty, tokens that decode to zero ('@' has the index
\* 0 and '0' is not in the alphabet), short tokens, and a token of eleven
\* characters whose last one has a bit above the 64th
Identities == {UNDEF, "", "@", "@0", "@@_", "A1", "@@@@@@@@@@G"}

\* every game kind with every roster, every server info mode with every
\* roster, and every identity
SessionInputs ==
    {[fn |-> "session", done |-> FALSE, entry |-> RawSession(kind, Num(1), pl),
      out |-> <<>>] : kind \in GameKinds, pl \in Rosters}
    \cup
    {[fn |-> "session", done |-> FALSE,
      entry |-> RawSession(<<Num(2), Num(12)>>, si, pl),
      out |-> <<>>] : si \in ServerInfoModes, pl \in Rosters}
    \cup
    {[fn |-> "session", done |-> FALSE,
      entry |-> [RawSession(<<Num(2), Num(12)>>, Num(1), <<>>) EXCEPT !.g = g],
      out |-> <<>>] : g \in Identities}

ParseSessionCall ==
    /\ calc.fn = "session"
    /\ ~calc.done
    /\ calc' = [calc EXCEPT !.done = TRUE, !.out = parseSession(calc.entry)]
    /\ UNCHANGED <<lastSuccessfulMethod, mapDataCache, fr, fs, md,
                   lastFallbackOk, lastRouteOk>>

\* parsePlayer over a raw player in each team slot, its place in the
\* roster and the game the caller says it is in
PlayerIndexes == {0, 1}
GameModes == {NULL, "DM", "TEAM_DM", "FFA", "STRAT", "MPI"}
PlayerInputs ==
    {[fn |-> "player", done |-> FALSE, rawPlayer |-> rp, index |-> ix,
      isTeamGame |-> tg, isMPI |-> mpi, gameMode |-> gm, out |-> <<>>] :
        rp \in RosterPlayers \cup {PlayerBo, PlayerDi, PlayerFy},
        ix \in PlayerIndexes, tg \in BOOLEAN, mpi \in BOOLEAN,
        gm \in GameModes}

ParsePlayerCall ==
    /\ calc.fn = "player"
    /\ ~calc.done
    /\ calc' = [calc EXCEPT
                    !.done = TRUE,
                    !.out = parsePlayer(calc.rawPlayer, calc.index,
                                        calc.isTeamGame, calc.isMPI,
                                        calc.gameMode)]
    /\ UNCHANGED <<lastSuccessfulMethod, mapDataCache, fr, fs, md,
                   lastFallbackOk, lastRouteOk>>

\* buildSteamJoinUrl over raw sessions that differ in the flags l and k, the
\* mod list, the name and the identity.  The names: none, plain text, a
\* euro sign (byte 0x80) before a space, text cut by a null byte, S with
\* caron (byte 0x8A), e with acute (byte 0xE9), text around a tab
FlagValues == {None, Num(0), Num(1)}
ModLists == {<<>>, <<"">>, <<"0">>, <<VSR_MOD_ID, "", "123">>}
NameFields ==
    {NoName, B64(<<86, 83, 82>>), B64(<<128, 32>>), B64(<<65, 0, 66>>),
     B64(<<138>>), B64(<<233>>), B64(<<65, 9, 66>>)}
JoinInputs ==
    {[fn |-> "join", done |-> FALSE,
      entry |-> [g |-> g, n |-> n, m |-> "vsr4pool", mm |-> mm,
                 gt |-> Num(2), gtd |-> Num(12), si |-> Num(1), pl |-> <<>>,
                 l |-> l, k |-> k],
      url |-> NoUrl] :
        g \in {"B2", ""}, n \in NameFields, mm \in ModLists,
        l \in FlagValues, k \in FlagValues}

BuildSteamJoinUrlCall ==
    /\ calc.fn = "join"
    /\ ~calc.done
    /\ calc' = [calc EXCEPT !.done = TRUE, !.url = buildSteamJoinUrl(calc.entry)]
    /\ UNCHANGED <<lastSuccessfulMethod, mapDataCache, fr, fs, md,
                   lastFallbackOk, lastRouteOk>>

\* decodeRakNetGuid over tokens: every token of up to MaxToken characters
\* from '@', '1', 'F', 'G', '_' (the indexes 0, 1, 15, 16, 63) and '!' (not
\* in the alphabet), and ten '@' followed by one or two of these
MaxToken == 3
GuidChars == {64, 49, 70, 71, 95, 33}
Tokens ==
    UNION {[1..n -> GuidChars] : n \in 0..MaxToken}
        \cup {[k \in 1..10 |-> 64] \o t : t \in UNION {[1..n -> GuidChars] : n \in 1..2}}
GuidInputs ==
    {[fn |-> "guid", done |-> FALSE, token |-> t, big |-> NoBigInt] : t \in Tokens}

DecodeRakNetGuidCall ==
    /\ calc.fn = "guid"
    /\ ~calc.done
    /\ calc' = [calc EXCEPT !.done = TRUE, !.big = decodeRakNetGuid(calc.token)]
    /\ UNCHANGED <<lastSuccessfulMethod, mapDataCache, fr, fs, md,
                   lastFallbackOk, lastRouteOk>>

\* cleanGogId over raw ids: numerals below 2^56, with bits 56..63 set, with
\* all of them set, at 2^64 and above (hi 256), and negative (hi -1; a
\* negative lo stands for the low bits 2^56 + lo); a numeral that is not
\* in plain decimal form; a text BigInt rejects; and the empty string
GogIds ==
    {IdNum(hi, lo) : hi \in {0, 1, 255, 256, -1}, lo \in {0, 7, -5}}
        \cup {IdPadded(0, 7), IdPadded(255, 0), IdText(1), IdEmpty}
GogInputs ==
    {[fn |-> "gog", done |-> FALSE, rawGogId |-> id, cleaned |-> IdNull] :
        id \in GogIds}

CleanGogIdCall ==
    /\ calc.fn = "gog"
    /\ ~calc.done
    /\ calc' = [calc EXCEPT !.done = TRUE, !.cleaned = cleanGogId(calc.rawGogId)]
    /\ UNCHANGED <<lastSuccessfulMethod, mapDataCache, fr, fs, md,
                   lastFallbackOk, lastRouteOk>>

\* parseGameTypeAndMode over the game types and over sub-types with every
\* modeBase and, in detailed, every sub-mode from 0 to 8 and the respawn
\* bits alone, together and next to a sub-mode
GameTypes == {None} \cup {Num(gt) : gt \in 0..3}
DetailedValues == 0..8 \cup {255, 256, 256 + 6, 512, 512 + 7, 768 + 2, 1024 + 1}
SubTypes ==
    {None} \cup {Num(GameMode.GAMEMODE_MAX * detailed + modeBase) :
                    detailed \in DetailedValues, modeBase \in 0..13}
ModeInputs ==
    {[fn |-> "mode", done |-> FALSE, gt |-> gt, gtd |-> gtd, info |-> <<>>] :
        gt \in GameTypes, gtd \in SubTypes}

ParseGameTypeAndModeCall ==
    /\ calc.fn = "mode"
    /\ ~calc.done
    /\ calc' = [calc EXCEPT !.done = TRUE,
                            !.info = parseGameTypeAndMode(calc.gt, calc.gtd)]
    /\ UNCHANGED <<lastSuccessfulMethod, mapDataCache, fr, fs, md,
                   lastFallbackOk, lastRouteOk>>

InitPure ==
    /\ lastSuccessfulMethod = NULL
    /\ mapDataCache = EmptyCache
    /\ fr = [c \in Slots |-> IdleFrame]
    /\ fs = IdleSessions
    /\ md = [i \in LookupIds |-> IdleLookup]
    /\ lastFallbackOk = NULL
    /\ lastRouteOk = NULL
    /\ calc \in AssembleInputs \cup CacheInputs \cup StateInputs
                \cup SessionInputs \cup PlayerInputs \cup JoinInputs
                \cup GuidInputs \cup GogInputs \cup ModeInputs

NextPure ==
    \/ AssembleCall
    \/ BuildDataCacheCall
    \/ ParseSessionStateCall
    \/ ParseSessionCall
    \/ ParsePlayerCall
    \/ BuildSteamJoinUrlCall
    \/ DecodeRakNetGuidCall
    \/ CleanGogIdCall
    \/ ParseGameTypeAndModeCall

SpecPure == InitPure /\ [][NextPure]_vars

(***************************************************************************)
(* Properties of the assembly.                                             *)
(***************************************************************************)
\* the rearrangements of a list
Perms(n) == {p \in [1..n -> 1..n] : \A i, j \in 1..n : p[i] = p[j] => i = j}
Permute(list, p) == [i \in 1..Len(list) |-> list[p[i]]]

\* no two entries of the list have the same identity key
DistinctIds(list) ==
    \A i, j \in 1..Len(list) : list[i].g = list[j].g => i = j

\* C11 as stated: for every raw collection and every permutation of it, the
\* assembled session list is the same list in the same order.
C11_AsStated ==
    calc.fn = "assemble" /\ calc.done
        => \A p \in Perms(Len(calc.raw)) :
              AssembleSessions(Permute(calc.raw, p)) = calc.out

\* C11: for every raw collection whose entries have pairwise distinct
\* identity keys and every permutation of it, the assembled session list is
\* the same list in the same order.
C11_OrderIndependent ==
    calc.fn = "assemble" /\ calc.done /\ DistinctIds(calc.raw)
        => \A p \in Perms(Len(calc.raw)) :
              AssembleSessions(Permute(calc.raw, p)) = calc.out

C11_Witness ==
    /\ calc.fn = "assemble"
    /\ calc.done
    /\ calc.raw = <<RawVsr2, RawNoMap, RawVsr>>
    /\ calc.out # [i \in 1..3 |-> parseSession(calc.raw[i])]

(***************************************************************************)
(* Properties of the data cache.                                           *)
(***************************************************************************)
\* the players, and the mods, of the sessions in session order and then in
\* roster or mod order
RECURSIVE AllPlayers(_)
AllPlayers(sessions) ==
    IF sessions = <<>> THEN <<>>
    ELSE Head(sessions).players \o AllPlayers(Tail(sessions))

RECURSIVE AllMods(_)
AllMods(sessions) ==
    IF sessions = <<>> THEN <<>>
    ELSE Head(sessions).mods \o AllMods(Tail(sessions))

\* the first place in the list with the key
FirstAt(list, Key(_), key) ==
    CHOOSE i \in 1..Len(list) :
        /\ Key(list[i]) = key
        /\ \A j \in 1..(i - 1) : Key(list[j]) # key

ModIdOf(mod) == mod.id

\* the cache has the keys the sessions have and, under each, the fields of
\* the first occurrence
FirstOccurrenceWins(sessions, cache) ==
    LET ps == AllPlayers(sessions)
        ms == AllMods(sessions)
        pkeys == {PlayerIdOf(ps[i]) : i \in {j \in 1..Len(ps) : Truthy(PlayerIdOf(ps[j]))}}
        mkeys == {ms[i].id : i \in 1..Len(ms)}
    IN  /\ DOMAIN cache.players = pkeys
        /\ DOMAIN cache.mods = mkeys
        /\ \A key \in pkeys :
                cache.players[key] = PlayerEntry(ps[FirstAt(ps, PlayerIdOf, key)])
        /\ \A key \in mkeys :
                cache.mods[key] = ModEntry(ms[FirstAt(ms, ModIdOf, key)])

\* C12 as stated: over any ordered list of sessions, buildDataCache yields a
\* players map keyed exactly by the platform ids of the players that have
\* one and a mods map keyed exactly by the mod ids the sessions name, each
\* entry holding the fields of the first occurrence of its key.
C12_AsStated ==
    calc.fn = "cache" /\ calc.done => FirstOccurrenceWins(calc.sessions, calc.out)

\* no id in the sessions is a name that Object.prototype answers to
OrdinaryKeys(sessions) ==
    /\ \A i \in 1..Len(AllPlayers(sessions)) :
            PlayerIdOf(AllPlayers(sessions)[i]) \notin InheritedPlayerKeys
    /\ \A i \in 1..Len(AllMods(sessions)) :
            AllMods(sessions)[i].id \notin InheritedModKeys

\* the first occurrence wins in every list whose ids are ordinary
C12_OrdinaryKeys ==
    calc.fn = "cache" /\ calc.done /\ OrdinaryKeys(calc.sessions)
        => FirstOccurrenceWins(calc.sessions, calc.out)

\* a key met twice with different fields, stored with the fields of the first
C12_Collision ==
    /\ calc.fn = "cache" /\ calc.done
    /\ calc.sessions = <<parseSession(RawVsr2), parseSession(RawVsr)>>
    /\ calc.out.players[IdNum(0, 7)].platform = "GOG"

(***************************************************************************)
(* Properties of the session state.                                        *)
(***************************************************************************)
\* some player of the roster has a score, a kill count or a death count
\* that is a number other than zero
SomeStat(players) ==
    \E i \in 1..Len(players) : \E f \in {"score", "kills", "deaths"} :
        players[i][f] \notin {None, Num(0)}

\* C13: for si 1 or 2, parseSessionState gives InGame with detail 'playing'
\* if and only if some player has a nonzero score, kill count or death
\* count, and otherwise PreGame with detail 'waiting' (si 1) or 'full'
\* (si 2); for every other si the result is the same for every roster.
C13_StatsOverrideWaiting ==
    calc.fn = "state" /\ calc.done =>
        IF calc.si \in {Num(1), Num(2)}
        THEN /\ (calc.out.state = "InGame" /\ calc.out.stateDetail = "playing")
                    <=> SomeStat(calc.players)
             /\ ~SomeStat(calc.players) =>
                    /\ calc.out.state = "PreGame"
                    /\ calc.out.stateDetail =
                            IF calc.si = Num(1) THEN "waiting" ELSE "full"
        ELSE \A ps \in StatRosters : parseSessionState(calc.si, ps) = calc.out

\* a full lobby whose only nonzero stat is one player's death count
C13_Witness ==
    /\ calc.fn = "state" /\ calc.done
    /\ calc.si = Num(2)
    /\ calc.players = <<[score |-> Num(0), kills |-> None, deaths |-> Num(2)]>>
    /\ calc.out.state = "InGame"

C15_HiddenAndTeams ==
    calc.fn = "session" /\ calc.done =>
        \A i \in 1..Len(calc.out.players) :
            LET player == calc.out.players[i]
            IN  /\ player.isHidden <=> calc.entry.pl[i].t \in {None, Num(255)}
                /\ (player.team # None \/ player.teamIndex # None) =>
                        /\ ~player.isHidden
                        /\ calc.out.isTeamGame
                        /\ player.team \in {Num(1), Num(2)}

\* a team game with a hidden player and a player on the second team
C15_Witness ==
    /\ calc.fn = "session" /\ calc.done
    /\ calc.out.isTeamGame
    /\ Len(calc.out.players) = 2
    /\ calc.out.players[1].isHidden /\ calc.out.players[1].team = None
    /\ calc.out.players[2].team = Num(2)

\* C16: parsePlayer in a team game that is not MPI gives, for a slot in
\* 1..5, team 1 with teamIndex slot-1 and isTeamLeader iff the slot is 1;
\* for a slot in 6..10, team 2 with teamIndex slot-6 and isTeamLeader iff the
\* slot is 6; for any other slot that is not hidden, no team, no teamIndex
\* and isTeamLeader false; and slot 255 gives isHidden true and no team
\* whatever the team flags are.
C16_TwoTeamSlots ==
    calc.fn = "player" /\ calc.done =>
        LET t == calc.rawPlayer.t
            player == calc.out
        IN  /\ calc.isTeamGame /\ ~calc.isMPI /\ t \notin {None, Num(255)} =>
                CASE t[1] \in 1..5 ->
                        /\ player.team = Num(1)
                        /\ player.teamIndex = Num(t[1] - 1)
                        /\ player.isTeamLeader <=> t[1] = 1
                  [] t[1] \in 6..10 ->
                        /\ player.team = Num(2)
                        /\ player.teamIndex = Num(t[1] - 6)
                        /\ player.isTeamLeader <=> t[1] = 6
                  [] OTHER ->
                        /\ ~player.isHidden
                        /\ player.team = None
                        /\ player.teamIndex = None
                        /\ ~player.isTeamLeader
            /\ t = Num(255) =>
                    /\ player.isHidden
                    /\ player.team = None
                    /\ player.teamIndex = None

\* the leader of the second team, in a two-team game
C16_Witness ==
    /\ calc.fn = "player" /\ calc.done
    /\ calc.isTeamGame /\ ~calc.isMPI
    /\ calc.rawPlayer.t = Num(6)
    /\ calc.out.team = Num(2) /\ calc.out.teamIndex = Num(0)
    /\ calc.out.isTeamLeader

\* C17: for every player parsePlayer or parseSession produces, teamIndex,
\* when it is not null, is in 0..4.
C17_TeamIndexInRange ==
    /\ calc.fn = "player" /\ calc.done /\ calc.out.teamIndex # None =>
            calc.out.teamIndex[1] \in 0..4
    /\ calc.fn = "session" /\ calc.done =>
            \A i \in 1..Len(calc.out.players) :
                calc.out.players[i].teamIndex # None =>
                    calc.out.players[i].teamIndex[1] \in 0..4

\* the game modes that are strategy-oriented
StrategyModes == {"STRAT", "MPI", "TEAM_STRAT"}

\* C18: for every player of every session parseSession produces,
\* isCommander is true if and only if isTeamLeader is true and the game mode
\* is strategy-oriented; and in every strategy-oriented session a player in
\* slot 1 is a commander and is listed in commanders.
C18_Commanders ==
    calc.fn = "session" /\ calc.done =>
        \A i \in 1..Len(calc.out.players) :
            LET player == calc.out.players[i]
            IN  /\ player.isCommander
                        <=> player.isTeamLeader /\ calc.out.gameMode \in StrategyModes
                /\ calc.out.gameMode \in StrategyModes /\ player.teamSlot = Num(1) =>
                        /\ player.isCommander
                        /\ \E j \in 1..Len(calc.out.commanders) :
                                calc.out.commanders[j] = player.name

\* the first half of C18 alone: commanders are the team leaders of the
\* strategy-oriented sessions
C18_CommandersAreLeaders ==
    calc.fn = "session" /\ calc.done =>
        \A i \in 1..Len(calc.out.players) :
            calc.out.players[i].isCommander
                <=> /\ calc.out.players[i].isTeamLeader
                    /\ calc.out.gameMode \in StrategyModes

\* the second half of C18 in the sessions that are team games: a player in
\* slot 1 of a strategy-oriented team game is a commander and is listed
C18_TeamGameLeaders ==
    calc.fn = "session" /\ calc.done /\ calc.out.isTeamGame
        /\ calc.out.gameMode \in StrategyModes =>
            \A i \in 1..Len(calc.out.players) :
                calc.out.players[i].teamSlot = Num(1) =>
                    /\ calc.out.players[i].isCommander
                    /\ \E j \in 1..Len(calc.out.commanders) :
                            calc.out.commanders[j] = calc.out.players[i].name

(***************************************************************************)
(* Properties of the join URL.                                             *)
(***************************************************************************)
\* the raw session is locked or protected by a password
Closed(raw) == raw.l = Num(1) \/ raw.k = Num(1)

\* no piece of the mod list is a mod id
NoMods(raw) == \A i \in 1..Len(raw.mm) : raw.mm[i] = ""

Joinable(raw) == ~Closed(raw) /\ ~NoMods(raw)

StartsWith(str, prefix) ==
    Len(str) >= Len(prefix) /\ SubSeq(str, 1, Len(prefix)) = prefix

\* C19: buildSteamJoinUrl returns null whenever l = 1 or k = 1, whatever the
\* other fields are, and whenever the parsed mod-id list is empty; in every
\* other case it returns a URL that begins with the fixed prefix.
C19_NullOrPrefixed ==
    calc.fn = "join" /\ calc.done =>
        IF Joinable(calc.entry)
        THEN calc.url # NoUrl /\ StartsWith(calc.url, STEAM_JOIN_BASE)
        ELSE calc.url = NoUrl

\* a session with a password and nothing else against joining
C19_Witness ==
    /\ calc.fn = "join" /\ calc.done
    /\ calc.entry.k = Num(1) /\ calc.entry.l # Num(1)
    /\ ~NoMods(calc.entry)
    /\ calc.url = NoUrl

\* the characters of two lowercase hex digits
HexChars == 48..57 \cup 97..102
HexValue(c) == IF c <= 57 THEN c - 48 ELSE c - 97 + 10

\* hex holds every character of str as two lowercase hex digits
TwoDigitHexOf(hex, str) ==
    /\ Len(hex) = 2 * Len(str)
    /\ \A i \in 1..Len(str) :
            /\ hex[2 * i - 1] \in HexChars
            /\ hex[2 * i] \in HexChars
            /\ 16 * HexValue(hex[2 * i - 1]) + HexValue(hex[2 * i]) = str[i]

\* C20: for every joinable raw session the part of the URL after the prefix
\* is the argument string with every character as exactly two lowercase hex
\* digits, so its length is twice the length of the argument string, for
\* every decoded name, those with bytes 0x80-0x9F included.
C20_TwoHexDigits ==
    calc.fn = "join" /\ calc.done /\ Joinable(calc.entry) =>
        TwoDigitHexOf(SubSeq(calc.url, Len(STEAM_JOIN_BASE) + 1, Len(calc.url)),
                      JoinArgs(calc.entry))

\* every character of the decoded name is below 0x100
NarrowName(raw) ==
    \A i \in 1..Len(decodeBase64Name(raw.n)) : decodeBase64Name(raw.n)[i] < 256

\* the two-digit encoding in the sessions whose name has no wide character
C20_NarrowNames ==
    calc.fn = "join" /\ calc.done /\ Joinable(calc.entry) /\ NarrowName(calc.entry) =>
        TwoDigitHexOf(SubSeq(calc.url, Len(STEAM_JOIN_BASE) + 1, Len(calc.url)),
                      JoinArgs(calc.entry))

(***************************************************************************)
(* Properties of the guid.                                                 *)
(***************************************************************************)
\* C21: the guid of a session parseSession produces is null if and only if
\* the raw identity g is absent or empty; for every non-empty g, tokens
\* that decode to zero included, the guid is a hex string.
C21_GuidNullOnlyWithoutIdentity ==
    calc.fn = "session" /\ calc.done =>
        /\ calc.out.guid = NoGuid <=> calc.entry.g \in {UNDEF, ""}
        /\ calc.out.guid # NoGuid =>
                \A k \in 1..Len(calc.out.guid) : calc.out.guid[k] \in HexChars

\* the guid is null exactly when g is absent, empty or decodes to zero
C21_GuidNullOnZero ==
    calc.fn = "session" /\ calc.done =>
        calc.out.guid = NoGuid
            <=> \/ calc.entry.g \in {UNDEF, ""}
                \/ IsZero(decodeRakNetGuid(Chars(OrEmpty(calc.entry.g))).bits)

\* the bits are those of a number below 2^64
Fits64(bits) == \A k \in 1..Len(bits) : k > 64 => bits[k] = 0

\* C22: for every non-empty token decodeRakNetGuid returns an unsigned
\* integer below 2^64, and the guid parseSession renders for a non-empty
\* identity is exactly 16 lowercase hex characters.
C22_SixtyFourBits ==
    /\ calc.fn = "guid" /\ calc.done /\ calc.token # <<>> =>
            calc.big.kind = "bigint" /\ Fits64(calc.big.bits)
    /\ calc.fn = "session" /\ calc.done /\ calc.entry.g \notin {UNDEF, ""} =>
            /\ Len(calc.out.guid) = 16
            /\ \A k \in 1..16 : calc.out.guid[k] \in HexChars

\* tokens of at most ten characters decode below 2^64, and every guid that
\* is rendered for them has 16 hex characters
C22_ShortTokens ==
    /\ calc.fn = "guid" /\ calc.done /\ calc.token # <<>> /\ Len(calc.token) <= 10 =>
            Fits64(calc.big.bits)
    /\ calc.fn = "session" /\ calc.done /\ calc.out.guid # NoGuid
            /\ Len(Chars(OrEmpty(calc.entry.g))) <= 10 =>
                Len(calc.out.guid) = 16

\* every character of the token is in the alphabet
InAlphabet(token) ==
    \A i \in 1..Len(token) : \E j \in 1..64 : RAKNET_B64_CHARS[j] = token[i]

\* the number that the bits 6i .. 6i+5 hold
SixAt(bits, i) ==
    LET bit(k) == IF k <= Len(bits) THEN bits[k] ELSE 0
    IN  bit(6 * i + 1) + 2 * bit(6 * i + 2) + 4 * bit(6 * i + 3)
            + 8 * bit(6 * i + 4) + 16 * bit(6 * i + 5) + 32 * bit(6 * i + 6)

\* the canonical encoding of a value in len characters
Encode(bits, len) == [i \in 1..len |-> RAKNET_B64_CHARS[SixAt(bits, i - 1) + 1]]

\* C23: decodeRakNetGuid places the alphabet index of the character at
\* position i in the bits 6i .. 6i+5 (zero bits for a character outside the
\* alphabet) and nothing above; two different tokens of one length made of
\* alphabet characters never decode to the same integer; and decoding the
\* canonical encoding of a value recovers the value.
C23_BitPacking ==
    calc.fn = "guid" /\ calc.done /\ calc.token # <<>> =>
        /\ \A i \in 0..(Len(calc.token) - 1) :
                SixAt(calc.big.bits, i) =
                    IF InAlphabet(<<calc.token[i + 1]>>)
                    THEN IndexOf(RAKNET_B64_CHARS, calc.token[i + 1]) ELSE 0
        /\ \A k \in 1..Len(calc.big.bits) :
                k > 6 * Len(calc.token) => calc.big.bits[k] = 0
        /\ InAlphabet(calc.token) =>
                /\ \A t \in Tokens :
                        /\ Len(t) = Len(calc.token)
                        /\ InAlphabet(t)
                        /\ Significant(decodeRakNetGuid(t).bits)
                                = Significant(calc.big.bits)
                        => t = calc.token
                /\ Encode(calc.big.bits, Len(calc.token)) = calc.token
                /\ Significant(decodeRakNetGuid(
                        Encode(calc.big.bits, Len(calc.token))).bits)
                        = Significant(calc.big.bits)

\* a token of three alphabet characters with the highest index last
C23_Witness ==
    /\ calc.fn = "guid" /\ calc.done
    /\ calc.token = <<49, 71, 95>>
    /\ calc.big.bits = <<1, 0, 0, 0, 0, 0,  0, 0, 0, 0, 1, 0,  1, 1, 1, 1, 1, 1>>

(***************************************************************************)
(* Properties of the GOG id.                                               *)
(***************************************************************************)
\* the raw id is the numeral of an unsigned integer below 2^64
ParsesAsUint64(id) == id.kind = "num" /\ id.hi >= 0 /\ id.hi <= 255

\* C24: for every raw id that parses as an unsigned 64-bit integer v,
\* cleanGogId returns the decimal string of v mod 2^56 (so "0" when only
\* the top 8 bits are set) and cleaning the result again gives the same;
\* for a raw id that does not parse it returns the original string.
C24_ClearsHighBits ==
    calc.fn = "gog" /\ calc.done =>
        IF ParsesAsUint64(calc.rawGogId)
        THEN /\ calc.cleaned = IdNum(0, calc.rawGogId.lo)
             /\ cleanGogId(calc.cleaned) = calc.cleaned
        ELSE calc.cleaned = calc.rawGogId

\* what cleanGogId does: every numeral BigInt accepts, of whatever size and
\* sign, is reduced to its low 56 bits; a text BigInt rejects comes back
\* unchanged; the empty string gives null
C24_AnyNumeral ==
    calc.fn = "gog" /\ calc.done =>
        CASE calc.rawGogId.kind = "num" ->
                /\ calc.cleaned = IdNum(0, calc.rawGogId.lo)
                /\ cleanGogId(calc.cleaned) = calc.cleaned
          [] calc.rawGogId.kind = "text" -> calc.cleaned = calc.rawGogId
          [] OTHER -> calc.cleaned = IdNull

\* the statement of C24 on the numerals below 2^64 and on the texts BigInt
\* rejects
C24_InRange ==
    calc.fn = "gog" /\ calc.done
        /\ (ParsesAsUint64(calc.rawGogId) \/ calc.rawGogId.kind = "text") =>
            IF ParsesAsUint64(calc.rawGogId)
            THEN /\ calc.cleaned = IdNum(0, calc.rawGogId.lo)
                 /\ cleanGogId(calc.cleaned) = calc.cleaned
            ELSE calc.cleaned = calc.rawGogId

(***************************************************************************)
(* Properties of the game mode.                                            *)
(***************************************************************************)
\* the mode a deathmatch sub-mode names, and its team variant
SubModeName(flags) ==
    CASE flags \in {0, 7} -> "DM"
      [] flags = 1 -> "KOTH"
      [] flags = 2 -> "CTF"
      [] flags = 3 -> "LOOT"
      [] flags \in {5, 6} -> "RACE"
      [] OTHER -> "DM"

TeamVariant(mode) ==
    CASE mode = "DM" -> "TEAM_DM"
      [] mode = "KOTH" -> "TEAM_KOTH"
      [] mode = "CTF" -> "TEAM_CTF"
      [] mode = "LOOT" -> "TEAM_LOOT"
      [] mode = "RACE" -> "TEAM_RACE"

TeamModes ==
    {"TEAM_DM", "TEAM_KOTH", "TEAM_CTF", "TEAM_LOOT", "TEAM_RACE", "STRAT", "MPI"}

\* C29: for every result of parseGameTypeAndMode, isTeamGame is true if
\* and only if the game mode is a team variant, the fallback cases of an
\* unlisted deathmatch sub-mode and an unlisted strategy modeBase included.
C29_TeamFlagAgreesWithMode ==
    calc.fn = "mode" /\ calc.done =>
        (calc.info.isTeamGame <=> calc.info.gameMode \in TeamModes)

\* the sub-type is not one of the fallback cases
Listed(gt, gtd) ==
    \/ gtd = None
    \/ gt \notin {Num(1), Num(2)}
    \/ gt = Num(1) /\ ((gtd[1] \div 14) % 256) \in {0, 1, 2, 3, 5, 6, 7}
    \/ gt = Num(2) /\ (gtd[1] % 14) \in {11, 12, 13}

\* isTeamGame and the game mode agree wherever no fallback is taken
C29_ListedModes ==
    calc.fn = "mode" /\ calc.done /\ Listed(calc.gt, calc.gtd) =>
        (calc.info.isTeamGame <=> calc.info.gameMode \in TeamModes)

(***************************************************************************)
(* The raw records through the pipeline.                                   *)
(***************************************************************************)
\* the number of places of list holding x
Count(list, x) == Cardinality({i \in 1..Len(list) : list[i] = x})

\* the raw records kept on the sessions, in the order of the sessions
RawsKept(sessions) == [i \in 1..Len(sessions) |-> sessions[i]._raw]

\* a fetchSessions call holds the raw data it received
HoldsRaw(s) == s.pc \in {"maps", "done"} /\ s.result \in {"none", "ok"}

\* C26: no operation of the pipeline modifies a raw record.  The raw
\* collection a fetchSessions call holds is one the service sent and stays
\* the one it received through parsing, the map and VSR enrichment and the
\* building of the result; the records kept on the sessions as _raw are the
\* records of that collection, each as often as it was received; and the
\* record kept on a session is the same before and after enrichment.
C26_RawUntouched ==
    /\ [](HoldsRaw(fs)
            => /\ fs.rawData \in RawResponses
               /\ Len(fs.sessions) = Len(fs.rawData)
               /\ \A i \in 1..Len(fs.rawData) :
                     Count(RawsKept(fs.sessions), fs.rawData[i])
                         = Count(fs.rawData, fs.rawData[i]))
    /\ [][HoldsRaw(fs) /\ HoldsRaw(fs')
            => /\ fs'.rawData = fs.rawData
               /\ RawsKept(fs'.sessions) = RawsKept(fs.sessions)]_vars

\* a call has returned three sessions in another order than received, with
\* map data applied to one, the defaults of a failed lookup to another, and
\* VSR data to one
C26_Witness ==
    /\ fs.pc = "done" /\ fs.result = "ok"
    /\ fs.opts.enrichMaps /\ fs.opts.enrichVsrMaps
    /\ Len(fs.rawData) = 3
    /\ RawsKept(fs.sessions) # fs.rawData
    /\ \E i, j, k \in 1..3 :
          /\ fs.sessions[i].mapName \notin {NULL, UNDEF}
          /\ fs.sessions[j].mapName = NULL
          /\ fs.sessions[k].vsrPools \notin {NULL, UNDEF}

(***************************************************************************)
(* The memory across a call that fails.                                    *)
(***************************************************************************)
\* the calls that have ended in failure with no other call having run since
\* they started
FailedAlone ==
    {c \in Slots : /\ fr[c].pc = "done"
                   /\ fr[c].result # "data"
                   /\ fr[c].atCall # "none"}

\* C27: a fetchRaw call that ends in failure leaves the memory with the
\* value it had when the call started, no other call having run in between.
C27_FailureKeepsMemory ==
    \A c \in FailedAlone : lastSuccessfulMethod = fr[c].atCall

\* the same of the calls that fail otherwise than on the body of a primary
\* response with a success status
C27_KeptUnlessPrimaryBody ==
    \A c \in FailedAlone :
        fr[c].tried = <<DIRECT>> \/ lastSuccessfulMethod = fr[c].atCall

\* a call made with a fallback remembered has failed on every route
C27_Reached ==
    \E c \in FailedAlone :
        /\ fr[c].result = "AllFailed"
        /\ fr[c].atCall \in ProxySet

(***************************************************************************)
(* Properties of the map cache.                                            *)
(***************************************************************************)
\* what a lookup for a map file may return after a request
LookupResults(mapFile) == {NullData, parseMapData(MapJson, mapFile)}

\* the cache once lookup l has returned r and then lookup k has returned q
CacheAfterBoth(cache, l, r, k, q) ==
    CacheAfter(CacheAfter(cache, ReturnLookup(l, r)), ReturnLookup(k, q))

\* the pairs of lookups for the same key that are waiting for a response
Overlapping ==
    {p \in LookupIds \X LookupIds :
        /\ p[1] < p[2]
        /\ InFlight(md[p[1]]) /\ InFlight(md[p[2]])
        /\ md[p[1]].key = md[p[2]].key}

\* C28: when two fetchMapData calls for the same key overlap, the value
\* left in the cache for the key once both have returned is the same
\* whichever returns first, whatever each returns, map data or null.
C28_OrderOfReturns ==
    \A p \in Overlapping :
        LET l == md[p[1]]
            k == md[p[2]]
        IN  \A r, q \in LookupResults(l.key[2]) :
                CacheAfterBoth(mapDataCache, l, r, k, q)[l.key]
                    = CacheAfterBoth(mapDataCache, k, q, l, r)[l.key]

\* the same of two calls that return the same value
C28_SameValue ==
    \A p \in Overlapping :
        LET l == md[p[1]]
            k == md[p[2]]
        IN  \A r \in LookupResults(l.key[2]) :
                CacheAfterBoth(mapDataCache, l, r, k, r)[l.key]
                    = CacheAfterBoth(mapDataCache, k, r, l, r)[l.key]

\* two overlapping calls for one key have returned, one map data and the
\* other null
C28_Reached ==
    \E i, j \in LookupIds :
        /\ i # j
        /\ md[i].pc = "done" /\ md[j].pc = "done"
        /\ md[i].key = md[j].key
        /\ md[i].result.kind = "data"
        /\ md[j].result = NullData
        /\ mapDataCache[md[i].key] = NullData

\* a fetchMapData call is made in place i in this step
Begins(i) ==
    /\ md[i].pc \in {"idle", "done"}
    /\ md'[i] # md[i]
    /\ md'[i].pc # "idle"

\* the call of place i returns in this step, after a request
Returns(i) == InFlight(md[i]) /\ md'[i].pc = "done"

\* a call that returns after a request leaves what it returns in the cache
Remembers ==
    \A i \in LookupIds :
        Returns(i) => CacheGet(mapDataCache', md[i].key) = md'[i].result

\* the cache changes for a key only when clearMapCache empties it or a call
\* for the key returns
KeepsUntilCleared ==
    \A k \in MapKeys :
        mapDataCache'[k] # mapDataCache[k]
            => \/ mapDataCache' = EmptyCache /\ md' = md
               \/ \E i \in LookupIds : Returns(i) /\ md[i].key = k

\* a call for a key the cache holds a value for returns that value at once;
\* a call for a key it holds none for issues the direct request
AnswersFromCache ==
    \A i \in LookupIds :
        Begins(i) /\ md'[i].key[2] # ""
            => IF CacheGet(mapDataCache, md'[i].key) # Absent
               THEN /\ md'[i].pc = "done"
                    /\ md'[i].result = CacheGet(mapDataCache, md'[i].key)
               ELSE md'[i].pc = "direct"

\* clearMapCache is called now, the call l returns r, and then a call is
\* made for the key of l: that call issues a request
RequestsAfterClear(l, r) ==
    BeginFetchMapData(l.key, CacheAfter(EmptyCache, ReturnLookup(l, r))).pc
        = "direct"

\* C30: once a fetchMapData call for a key has returned, with map data or
\* null, a later call for the key returns the remembered value without a
\* request until clearMapCache is called; after clearMapCache the next call
\* for the key issues a request again, whatever has happened in between,
\* the return of a call that was waiting for a response included.
C30_RemembersUntilCleared ==
    /\ [][Remembers /\ KeepsUntilCleared /\ AnswersFromCache]_vars
    /\ [](\A i \in LookupIds :
            InFlight(md[i])
                => \A r \in LookupResults(md[i].key[2]) :
                      RequestsAfterClear(md[i], r))

\* what holds of the cache whatever the calls in flight: a value is
\* remembered when a call returns, kept until clearMapCache or the return of
\* another call for the key, and answered from without a request; with no
\* value held for its key a call issues a request
C30_UnlessReturnedSince ==
    [][Remembers /\ KeepsUntilCleared /\ AnswersFromCache]_vars

====
